---- MODULE Spec2Model ----
(***************************************************************************)
(* Update checker of the Bay Area Discounts Android app                    *)
(* (src/src/utils/updateChecker.ts): the throttle gate, the record step,   *)
(* the release fetch, the version comparison, the dismissal record and the *)
(* three-button update dialog, run by concurrent asynchronous invocations  *)
(* over one persisted key-value store, with process restarts.              *)
(*                                                                         *)
(* Strings the code inspects (version tags, asset names, the stored        *)
(* timestamp) are sequences of one-character strings.  Time is in          *)
(* milliseconds.  Date.now() is taken to be non-decreasing.                *)
(***************************************************************************)
EXTENDS Integers, Sequences, FiniteSets

(* ------------------------------ bounds -------------------------------- *)

\* number of times the clock advances in a behaviour
MaxTicks == 2

\* number of calls of fetchLatestRelease followed step by step
MaxFetches == 2

\* number of calls of prepareIntegrityToken in one process
MaxPrepares == 2

(* --------------------------- program constants ------------------------ *)

CHECK_INTERVAL == 24 * 60 * 60 * 1000

UPDATE_CHECK_KEY == "last_update_check"

UPDATE_DISMISSED_KEY == "dismissed_version"

\* the delay of fetchLatestRelease's abort timer, in milliseconds
FETCH_TIMEOUT == 10000

CLOUD_PROJECT_NUMBER == "359306552386"

(* ------------------------------ values -------------------------------- *)

\* an optional value: JS null is None
None == [some |-> FALSE, v |-> <<>>]

Some(x) == [some |-> TRUE, v |-> x]

\* the result of Number / parseInt on a string that is not a number; every
\* numeric string of the model is unsigned, so no parse yields it otherwise
NaN == 0 - 1

Digits == <<"0", "1", "2", "3", "4", "5", "6", "7", "8", "9">>

IsDigit(c) == \E k \in 1..10 : Digits[k] = c

DigitVal(c) == (CHOOSE k \in 1..10 : Digits[k] = c) - 1

\* Number.prototype.toString of a non-negative integer
RECURSIVE ToString(_)
ToString(n) ==
    IF n < 10 THEN <<Digits[n + 1]>>
    ELSE ToString(n \div 10) \o <<Digits[(n % 10) + 1]>>

\* value of a string of digits
RECURSIVE DigitsValue(_)
DigitsValue(s) ==
    IF s = <<>> THEN 0
    ELSE 10 * DigitsValue(SubSeq(s, 1, Len(s) - 1)) + DigitVal(s[Len(s)])

\* length of the longest prefix of s made of digits
RECURSIVE DigitPrefix(_)
DigitPrefix(s) ==
    IF s = <<>> \/ ~IsDigit(Head(s)) THEN 0 ELSE 1 + DigitPrefix(Tail(s))

\* parseInt(s, 10) on a string without sign or leading white space
ParseInt(s) ==
    IF DigitPrefix(s) = 0 THEN NaN
    ELSE DigitsValue(SubSeq(s, 1, DigitPrefix(s)))

RECURSIVE Pow10(_)
Pow10(n) == IF n = 0 THEN 1 ELSE 10 * Pow10(n - 1)

\* s reads digits, "e", digits: a decimal literal with an exponent
IsExponent(s) ==
    /\ DigitPrefix(s) \in 1..(Len(s) - 2)
    /\ s[DigitPrefix(s) + 1] = "e"
    /\ DigitPrefix(SubSeq(s, DigitPrefix(s) + 2, Len(s))) = Len(s) - DigitPrefix(s) - 1

\* parseInt in the place of Number
NumberAsParseInt(s) == IF s = <<>> THEN 0 ELSE ParseInt(s)

\* Number(s) on a string over digits, letters and "-" without white space,
\* sign, radix prefix or "Infinity": "" is 0, digits are their decimal value,
\* digits "e" digits the value scaled by the power of ten, anything else NaN
Number(s) ==
    IF s = <<>> THEN 0
    ELSE IF DigitPrefix(s) = Len(s) THEN DigitsValue(s)
    ELSE IF IsExponent(s)
    THEN DigitsValue(SubSeq(s, 1, DigitPrefix(s)))
             * Pow10(DigitsValue(SubSeq(s, DigitPrefix(s) + 2, Len(s))))
    ELSE NaN

\* x || 0 for a number or undefined
OrZero(x) == IF x = NaN THEN 0 ELSE x

(* -------------------------- Version Comparator ------------------------ *)

\* no prefix is removed
StripVKeeps(s) == s

\* s.replace(/^v/, '')
StripV(s) == IF s # <<>> /\ Head(s) = "v" THEN Tail(s) ELSE s

\* index of the first "." of s, or 0
RECURSIVE DotIndex(_)
DotIndex(s) ==
    IF s = <<>> THEN 0
    ELSE IF Head(s) = "." THEN 1
    ELSE IF DotIndex(Tail(s)) = 0 THEN 0
    ELSE 1 + DotIndex(Tail(s))

\* s.split('.')
RECURSIVE Split(_)
Split(s) ==
    IF DotIndex(s) = 0 THEN <<s>>
    ELSE <<SubSeq(s, 1, DotIndex(s) - 1)>>
             \o Split(SubSeq(s, DotIndex(s) + 1, Len(s)))

\* s.split('.').map(Number)
Parts(s) == [k \in 1..Len(Split(s)) |-> Number(Split(s)[k])]

\* parts[i] || 0, where parts[i] is undefined past the end
PartOrZero(parts, i) == IF i <= Len(parts) THEN OrZero(parts[i]) ELSE 0

Max(x, y) == IF x >= y THEN x ELSE y

\* the loop of compareVersions from index i on
RECURSIVE CompareFrom(_, _, _)
CompareFrom(partsA, partsB, i) ==
    IF i > Max(Len(partsA), Len(partsB)) THEN 0
    ELSE IF PartOrZero(partsA, i) > PartOrZero(partsB, i) THEN 1
    ELSE IF PartOrZero(partsA, i) < PartOrZero(partsB, i) THEN 0 - 1
    ELSE CompareFrom(partsA, partsB, i + 1)

\* the comparator returning the difference of the first parts that differ
compareVersionsDifference(a, b) ==
    LET partsA == Parts(StripV(a))
        partsB == Parts(StripV(b))
        differ == {k \in 1..Max(Len(partsA), Len(partsB)) :
                      PartOrZero(partsA, k) # PartOrZero(partsB, k)}
        first == CHOOSE k \in differ : \A m \in differ : k <= m
    IN IF differ = {} THEN 0
       ELSE PartOrZero(partsA, first) - PartOrZero(partsB, first)

compareVersions(a, b) == CompareFrom(Parts(StripV(a)), Parts(StripV(b)), 1)

(* ------------------------------ inputs -------------------------------- *)

\* appConfig.expo.version values the build may carry
CurrentVersions == { <<"1", ".", "0", ".", "0">>, <<"1", ".", "1">> }

ApkName == <<"a", "p", "p", ".", "a", "p", "k">>

TxtName == <<"n", "o", "t", "e", "s", ".", "t", "x", "t">>

\* components joined by "."
RECURSIVE JoinDots(_)
JoinDots(components) ==
    IF Len(components) = 1 THEN components[1]
    ELSE components[1] \o <<".">> \o JoinDots(Tail(components))

\* the version string of a sequence of numbers, with or without the prefix
Render(prefix, numbers) ==
    (IF prefix THEN <<"v">> ELSE <<>>)
        \o JoinDots([k \in 1..Len(numbers) |-> ToString(numbers[k])])

\* the numbers of the versions compared: every version of one or two
\* components over ComponentValues, and some longer ones
ComponentValues == {0, 1, 2, 10}

VersionNumbers ==
    {<<m>> : m \in ComponentValues}
        \cup {<<m, n>> : m, n \in ComponentValues}
        \cup { <<1, 10, 0>>, <<1, 9, 0>>, <<1, 2, 0>>, <<2, 0, 0>>, <<1, 9, 9>>,
               <<1, 0, 0>>, <<1, 0, 1>>, <<0, 0, 1>>, <<1, 2, 0, 0>> }

\* version strings with components that are not decimal numbers, as the
\* components compareVersions splits them into
OddComponents ==
    { <<<<>>>>, <<<<"v">>>>, <<<<"V", "1">>>>, <<<<"v", "v", "1">>>>,
      <<<<"1">>, <<>>>>, <<<<>>, <<"1">>>>, <<<<"1">>, <<>>, <<"2">>>>,
      <<<<"1">>, <<"x">>>>, <<<<"1">>, <<"1">>, <<"r", "c">>>>,
      <<<<"1">>, <<"0">>, <<"0", "-", "b">>>>, <<<<"1">>, <<"0">>, <<"1", "-", "b">>>>,
      <<<<"1">>, <<"1", "b">>>>, <<<<"1">>, <<"v", "2">>>>,
      <<<<"1">>, <<"1", "e", "1">>>>, <<<<"x">>, <<"y">>>> }

\* an argument of compareVersions: its text and, for a version made of
\* numbers, the numbers
VersionInputs ==
    {[text |-> Render(prefix, numbers), numbers |-> Some(numbers)] :
        prefix \in BOOLEAN, numbers \in VersionNumbers}
        \cup {[text |-> JoinDots(components), numbers |-> None] :
                 components \in OddComponents}

\* a release descriptor: the fields of GitHubRelease the code reads; missing
\* names the fields a response body lacks
Release(tag, url, assets, missing) ==
    [tag_name |-> tag, html_url |-> url, assets |-> assets, missing |-> missing]

NoRelease == Release(<<>>, "", <<>>, {})

Asset(name, url) == [name |-> name, browser_download_url |-> url]

\* response bodies the release index may answer a 2xx with
Releases ==
    { Release(<<"v", "1", ".", "1", ".", "0">>, "page-1.1.0",
              <<Asset(TxtName, "txt-1.1.0"), Asset(ApkName, "apk-1.1.0"),
                Asset(ApkName, "apk2-1.1.0")>>, {}),
      Release(<<"1", ".", "1">>, "page-1.1", <<Asset(TxtName, "txt-1.1")>>, {}),
      Release(<<"1", ".", "0">>, "page-1.0", <<Asset(ApkName, "")>>, {}),
      Release(<<"v", "2">>, "page-2", <<>>, {"assets"}),
      Release(<<>>, "page-3", <<>>, {"tag_name"}) }

\* what fetchLatestRelease's request can end in
FetchOutcomes == {"ok", "notfound", "status", "transport", "timeout", "unparsable"}

\* HTTP statuses the release index answers with
Statuses == {200, 201, 404, 500}

\* Platform.OS
Platforms == {"android", "ios"}

\* an IntegrityResult, or any JSON body taken for one: object is FALSE for
\* JSON null; valid is "true", "false" or "undefined"; error is absent or a
\* string, given as the sequence of its pieces, <<>> the empty string
IntegrityResult(object, valid, error, appIntegrity) ==
    [object |-> object, valid |-> valid, error |-> error, appIntegrity |-> appIntegrity]

\* bodies the verification endpoint may answer a 2xx with
Bodies ==
    { IntegrityResult(TRUE, "true", None, "PLAY_RECOGNIZED"),
      IntegrityResult(TRUE, "true", None, "UNRECOGNIZED_VERSION"),
      IntegrityResult(TRUE, "false", None, "UNRECOGNIZED_VERSION"),
      IntegrityResult(TRUE, "false", Some(<<"tampered">>), ""),
      IntegrityResult(TRUE, "false", Some(<<>>), ""),
      IntegrityResult(TRUE, "true", Some(<<"degraded">>), "PLAY_RECOGNIZED"),
      IntegrityResult(TRUE, "undefined", None, ""),
      IntegrityResult(FALSE, "undefined", None, "") }

\* what requestIntegrityToken resolves with; "" is no token
Tokens == {"", "token-a", "token-b"}

\* a thrown value: an Error with its message, or something else
Thrown(isError, message) == [isError |-> isError, message |-> message]

\* what a platform or network call may reject with
Throwables ==
    { Thrown(TRUE, <<"Network request failed">>), Thrown(TRUE, <<>>),
      Thrown(FALSE, <<>>) }

(* ------------------------------- state -------------------------------- *)

Inv == {1, 2}

VARIABLES
    clock,          \* Date.now()
    ticks,          \* how often the clock advanced
    store,          \* AsyncStorage: the two persisted keys
    queue,          \* store operations issued and not yet completed, in order
    inv,            \* the invocations of checkForUpdates / forceCheckForUpdates
    alerts,         \* update dialogs on screen
    currentVersion, \* appConfig.expo.version
    errorAlert,     \* the 'Could not open download page' alert is on screen
    req,            \* a call of fetchLatestRelease followed step by step
    platform,       \* Platform.OS
    isInitialized,  \* appIntegrity.ts: the token provider was prepared
    prepares,       \* calls of prepareIntegrityToken made by this process
    att,            \* the calls into appIntegrity.ts
    chosen,         \* history: the tag of the user's latest "Don't Ask Again"
    applied,        \* history: the last two values dismissVersion persisted
    interrupted,    \* history: last_update_check when a restart cut a fetch short
    cmp             \* a call of compareVersions: its arguments and its result

hist == <<chosen, applied, interrupted>>

\* what the "Download" button acts on
linking == <<errorAlert>>

\* the state of appIntegrity.ts
integrity == <<platform, isInitialized, prepares, att>>

vars ==
    <<clock, ticks, store, queue, inv, alerts, currentVersion, linking, req,
      integrity, hist, cmp>>

\* pc: idle, gate (awaiting shouldCheckForUpdate), record (awaiting
\* recordUpdateCheck), fetch (awaiting fetchLatestRelease), dismissed
\* (awaiting isVersionDismissed), done.  release, dismissed: the code's locals.
\* record: whether recordUpdateCheck was called ("issued") and has returned,
\* its write "stored" or "failed"; fetched: the release-index GET was issued.
\* History kept while the invocation runs: priorCheck, last_update_check when
\* it started (until the gate has run); early, the gate (or the forced start)
\* ran less than CHECK_INTERVAL after priorCheck; gateError and readError, a
\* getItem rejected; settled, no "Don't Ask Again" was pressed since it started;
\* recordedAt, Date.now() as its recordUpdateCheck read it.
IdleInv ==
    [pc |-> "idle", kind |-> "none", force |-> FALSE,
     gateError |-> FALSE, early |-> FALSE, record |-> "none",
     fetched |-> FALSE, release |-> NoRelease,
     dismissed |-> None, readError |-> FALSE,
     outcome |-> "none", prompt |-> None, result |-> None,
     priorCheck |-> None, settled |-> TRUE, recordedAt |-> NaN]

\* phase: idle, pending (awaiting fetch), body (awaiting response.json()),
\* returned.  timer: the abort timer is armed, to fire at deadline.  status,
\* body: what the release index sent.  outcome, result: how the call ended and
\* what it returned.  calls: the calls made so far.
IdleReq ==
    [phase |-> "idle", timer |-> FALSE, deadline |-> 0, status |-> 0,
     body |-> None, outcome |-> "none", result |-> None, calls |-> 0]

\* pc: idle, prepare (awaiting prepareIntegrityToken), token (awaiting
\* requestIntegrityToken), post (awaiting fetch), json (awaiting
\* response.json()), done.  entry: the function called, initializeIntegrity
\* ("init"), verifyAppIntegrity ("verify") or isGenuineEnvironment ("genuine").
\* init: what initializeIntegrity returned.  token, sent, status, body: the
\* token received, the token posted, the response's status and parsed body.
\* result: what verifyAppIntegrity returned; answer: what
\* isGenuineEnvironment returned.  prepared, tokenReqs, posts: the platform
\* and network calls this call has made.
IdleAtt ==
    [pc |-> "idle", entry |-> "none", init |-> "none", prepared |-> FALSE,
     tokenReqs |-> 0, posts |-> 0, token |-> "", sent |-> "", status |-> 0,
     body |-> None, result |-> None, answer |-> "none"]

\* no call of compareVersions followed
IdleCmp == [a |-> <<>>, b |-> <<>>, numbersA |-> None, numbersB |-> None, result |-> None]

\* the state in which a process starts, on the platform it runs on
Start ==
    /\ clock = 1
    /\ isInitialized = FALSE
    /\ prepares = 0
    /\ att = [i \in Inv |-> IdleAtt]
    /\ ticks = 0
    /\ store = [lastCheck |-> None, dismissed |-> None]
    /\ queue = <<>>
    /\ inv = [i \in Inv |-> IdleInv]
    /\ alerts = {}
    /\ currentVersion \in CurrentVersions
    /\ errorAlert = FALSE
    /\ req = IdleReq
    /\ chosen = None
    /\ applied = <<>>
    /\ interrupted = None

\* the Android build
Init == Start /\ platform = "android" /\ cmp = IdleCmp

\* the build of any platform
InitIntegrity == Start /\ platform \in Platforms /\ cmp = IdleCmp

(* --------------------- Update Throttle & Dismissal -------------------- *)

\* the gate with the interval taken in seconds
GateDueSeconds(lastCheck, now) ==
    IF ~lastCheck.some \/ lastCheck.v = <<>> THEN TRUE
    ELSE now - ParseInt(lastCheck.v) >= 24 * 60 * 60

\* the gate with a strict comparison
GateDueStrict(lastCheck, now) ==
    IF ~lastCheck.some \/ lastCheck.v = <<>> THEN TRUE
    ELSE now - ParseInt(lastCheck.v) > CHECK_INTERVAL

\* the gate with a window of half the interval
GateDueHalfInterval(lastCheck, now) ==
    IF ~lastCheck.some \/ lastCheck.v = <<>> THEN TRUE
    ELSE now - ParseInt(lastCheck.v) >= CHECK_INTERVAL \div 2

\* shouldCheckForUpdate, lines 55-61, on the value getItem returned
GateDue(lastCheck, now) ==
    IF ~lastCheck.some \/ lastCheck.v = <<>> THEN TRUE
    ELSE now - ParseInt(lastCheck.v) >= CHECK_INTERVAL

\* the time of day in place of the time
RecordValueTimeOfDay(now) == ToString(now % CHECK_INTERVAL)

\* the time in seconds
RecordValueSeconds(now) == ToString(now \div 1000)

\* the value recordUpdateCheck passes to setItem
RecordValue(now) == ToString(now)

\* the comparison made with the displayed version, its prefix stripped
DismissedEqualsStripped(dismissed, version) ==
    dismissed.some /\ dismissed.v = StripV(version)

\* the comparison made by the Version Comparator
DismissedEqualsByVersion(dismissed, version) ==
    dismissed.some /\ compareVersions(dismissed.v, version) = 0

\* isVersionDismissed, line 85, on the value getItem returned
DismissedEquals(dismissed, version) == dismissed.some /\ dismissed.v = version

\* the version as the dialog displays it
DismissValueDisplayed(release) == StripV(release.tag_name)

\* the value the "Don't Ask Again" button passes to dismissVersion
DismissValue(release) == release.tag_name

(* ------------------------ Update Decision Engine ---------------------- *)

\* name.endsWith('.apk')
EndsWithApk(name) ==
    Len(name) >= 4 /\ SubSeq(name, Len(name) - 3, Len(name)) = <<".", "a", "p", "k">>

\* the last matching asset in place of the first
FindApkLast(assets) ==
    IF \E k \in 1..Len(assets) : EndsWithApk(assets[k].name)
    THEN CHOOSE k \in 1..Len(assets) :
             /\ EndsWithApk(assets[k].name)
             /\ \A j \in (k + 1)..Len(assets) : ~EndsWithApk(assets[j].name)
    ELSE 0

\* release.assets.find(asset => asset.name.endsWith('.apk')): its index, or 0
FindApk(assets) ==
    IF \E k \in 1..Len(assets) : EndsWithApk(assets[k].name)
    THEN CHOOSE k \in 1..Len(assets) :
             /\ EndsWithApk(assets[k].name)
             /\ \A j \in 1..(k - 1) : ~EndsWithApk(assets[j].name)
    ELSE 0

\* apkAsset?.browser_download_url || release.html_url
DownloadUrl(release) ==
    IF FindApk(release.assets) # 0
          /\ release.assets[FindApk(release.assets)].browser_download_url # ""
    THEN release.assets[FindApk(release.assets)].browser_download_url
    ELSE release.html_url

\* the comparison letting an equal version through
HasUpdateOrEqual(latest, current) == compareVersions(latest, current) >= 0

\* compareVersions(latestVersion, currentVersion) > 0
HasUpdate(latest, current) == compareVersions(latest, current) > 0

\* the dialog showUpdateDialog puts on screen
Dialog(release, downloadUrl) == [release |-> release, downloadUrl |-> downloadUrl]

\* forceCheckForUpdates' return value for a fetched release
ForceResult(release, current) ==
    [hasUpdate |-> HasUpdate(release.tag_name, current),
     latestVersion |-> Some(StripV(release.tag_name)),
     downloadUrl |-> Some(DownloadUrl(release))]

NoUpdateResult == [hasUpdate |-> FALSE, latestVersion |-> None, downloadUrl |-> None]

\* what fetchLatestRelease returns for the request's outcome
FetchResult(outcome, release) == IF outcome = "ok" THEN Some(release) ELSE None

(* ------------------------------ the store ----------------------------- *)

StoreOp(i, op, key, val) == [inv |-> i, op |-> op, key |-> key, val |-> val]

\* now is less than CHECK_INTERVAL after the persisted check time prior
Early(prior, now) == prior.some /\ now - ParseInt(prior.v) < CHECK_INTERVAL

\* the operation the store completes next is invocation i's op on key
HeadIs(i, op, key) ==
    /\ queue # <<>>
    /\ Head(queue).inv = i
    /\ Head(queue).op = op
    /\ Head(queue).key = key

\* invocation i awaits no store operation
NoneOutstanding(i) == \A k \in 1..Len(queue) : queue[k].inv # i

(* ------------------------------ actions ------------------------------- *)

InFlight(i) == inv[i].pc \notin {"idle", "done"}

\* a call runs in the lowest slot that is free
FreeSlot(i) == ~InFlight(i) /\ \A j \in Inv : j < i => InFlight(j)

\* an invocation returns: its locals are gone, its outcome stays visible
Return(rec, outcome) ==
    [IdleInv EXCEPT !.pc = "done", !.kind = rec.kind, !.force = rec.force,
                    !.record = rec.record, !.fetched = rec.fetched,
                    !.dismissed = rec.dismissed, !.readError = rec.readError,
                    !.outcome = outcome, !.prompt = rec.prompt, !.result = rec.result]

\* recordUpdateCheck called without await: the invocation goes on to the fetch
IssueRecordNoAwait(i, rec, q) ==
    /\ inv' = [inv EXCEPT ![i] = [rec EXCEPT !.pc = "fetch", !.record = "issued",
                                             !.fetched = TRUE, !.priorCheck = None,
                                             !.recordedAt = clock]]
    /\ queue' = Append(q, StoreOp(0, "set", UPDATE_CHECK_KEY, RecordValue(clock)))

\* recordUpdateCheck issues setItem(UPDATE_CHECK_KEY, Date.now().toString());
\* q is the queue the operation joins
IssueRecord(i, rec, q) ==
    /\ inv' = [inv EXCEPT ![i] = [rec EXCEPT !.pc = "record", !.record = "issued",
                                             !.priorCheck = None,
                                             !.recordedAt = clock]]
    /\ queue' = Append(q, StoreOp(i, "set", UPDATE_CHECK_KEY, RecordValue(clock)))

\* checkForUpdates(force) is called: lines 177-185 up to the first await
StartCheck(i, force) ==
    /\ FreeSlot(i)
    /\ LET rec == [IdleInv EXCEPT !.kind = "check", !.force = force,
                                  !.priorCheck = store.lastCheck,
                                  !.early = force /\ Early(store.lastCheck, clock)]
       IN IF force
          THEN IssueRecord(i, rec, queue)
          ELSE /\ inv' = [inv EXCEPT ![i] = [rec EXCEPT !.pc = "gate"]]
               /\ queue' = Append(queue, StoreOp(i, "get", UPDATE_CHECK_KEY, <<>>))
    /\ UNCHANGED <<clock, ticks, store, alerts, currentVersion, cmp, integrity, req, linking, hist>>

\* forceCheckForUpdates behind the throttle gate
StartForceGated(i) ==
    /\ FreeSlot(i)
    /\ inv' = [inv EXCEPT ![i] = [IdleInv EXCEPT !.kind = "force", !.force = TRUE,
                                                 !.pc = "gate",
                                                 !.priorCheck = store.lastCheck]]
    /\ queue' = Append(queue, StoreOp(i, "get", UPDATE_CHECK_KEY, <<>>))
    /\ UNCHANGED <<clock, ticks, store, alerts, currentVersion, cmp, integrity, req, linking, hist>>

\* forceCheckForUpdates() is called: lines 248-254 up to the first await
StartForce(i) ==
    /\ FreeSlot(i)
    /\ IssueRecord(i, [IdleInv EXCEPT !.kind = "force", !.force = TRUE,
                                      !.early = Early(store.lastCheck, clock)], queue)
    /\ UNCHANGED <<clock, ticks, store, alerts, currentVersion, cmp, integrity, req, linking, hist>>

\* checkForUpdates recording the check before it looks at the gate's answer
GateReadRecordsSkip(i, ok) ==
    /\ inv[i].pc = "gate"
    /\ HeadIs(i, "get", UPDATE_CHECK_KEY)
    /\ LET due == IF ok THEN GateDue(store.lastCheck, clock) ELSE TRUE
           rec == [inv[i] EXCEPT !.gateError = ~ok,
                                 !.early = Early(inv[i].priorCheck, clock)]
       IN IF due
          THEN IssueRecord(i, rec, Tail(queue))
          ELSE /\ inv' = [inv EXCEPT ![i] = Return(rec, "skipped")]
               /\ queue' = Append(Tail(queue),
                                  StoreOp(0, "set", UPDATE_CHECK_KEY, RecordValue(clock)))
    /\ UNCHANGED <<clock, ticks, store, alerts, currentVersion, cmp, integrity, req, linking, hist>>

\* shouldCheckForUpdate's getItem completes (ok) or rejects; checkForUpdates
\* returns when the check is not due and goes on to recordUpdateCheck otherwise
GateRead(i, ok) ==
    /\ inv[i].pc = "gate"
    /\ HeadIs(i, "get", UPDATE_CHECK_KEY)
    /\ LET due == IF ok THEN GateDue(store.lastCheck, clock) ELSE TRUE
           rec == [inv[i] EXCEPT !.gateError = ~ok,
                                 !.early = Early(inv[i].priorCheck, clock)]
       IN IF due
          THEN IssueRecord(i, rec, Tail(queue))
          ELSE /\ inv' = [inv EXCEPT ![i] = Return(rec, "skipped")]
               /\ queue' = Tail(queue)
    /\ UNCHANGED <<clock, ticks, store, alerts, currentVersion, cmp, integrity, req, linking, hist>>

\* recordUpdateCheck letting the rejection of setItem through
RecordDoneAbortsOnFailure(i, ok) ==
    /\ inv[i].pc = "record"
    /\ HeadIs(i, "set", UPDATE_CHECK_KEY)
    /\ store' = IF ok THEN [store EXCEPT !.lastCheck = Some(Head(queue).val)] ELSE store
    /\ queue' = Tail(queue)
    /\ inv' = [inv EXCEPT ![i] =
                  IF ok THEN [@ EXCEPT !.pc = "fetch", !.fetched = TRUE, !.record = "stored"]
                  ELSE Return([@ EXCEPT !.record = "failed"], "error")]
    /\ UNCHANGED <<clock, ticks, alerts, currentVersion, cmp, integrity, req, linking, hist>>

\* the release-index GET issued while recordUpdateCheck's setItem is pending
RecordDoneLeavesWrite(i, ok) ==
    /\ inv[i].pc = "record"
    /\ HeadIs(i, "set", UPDATE_CHECK_KEY)
    /\ inv' = [inv EXCEPT ![i] = [@ EXCEPT !.pc = "fetch", !.fetched = TRUE]]
    /\ UNCHANGED <<clock, ticks, store, queue, alerts, currentVersion, cmp, integrity, req, linking, hist>>

\* recordUpdateCheck's setItem completes (ok) or rejects, which is swallowed;
\* the invocation then issues the release-index GET
RecordDone(i, ok) ==
    /\ inv[i].pc = "record"
    /\ HeadIs(i, "set", UPDATE_CHECK_KEY)
    /\ store' = IF ok THEN [store EXCEPT !.lastCheck = Some(Head(queue).val)] ELSE store
    /\ queue' = Tail(queue)
    /\ inv' = [inv EXCEPT ![i] = [@ EXCEPT !.pc = "fetch", !.fetched = TRUE,
                                           !.record = IF ok THEN "stored" ELSE "failed"]]
    /\ UNCHANGED <<clock, ticks, alerts, currentVersion, cmp, integrity, req, linking, hist>>

\* checkForUpdates handing a descriptor's missing tag on to its caller
AfterFetchCheckRethrows(i, release) ==
    IF "tag_name" \in release.missing
    THEN /\ inv' = [inv EXCEPT ![i] = [Return(@, "threw") EXCEPT !.release = release]]
         /\ queue' = queue
    ELSE IF ~HasUpdate(release.tag_name, currentVersion)
    THEN /\ inv' = [inv EXCEPT ![i] = Return(@, "uptodate")]
         /\ queue' = queue
    ELSE /\ inv' = [inv EXCEPT ![i] = [@ EXCEPT !.pc = "dismissed", !.release = release]]
         /\ queue' = Append(queue, StoreOp(i, "get", UPDATE_DISMISSED_KEY, <<>>))

\* checkForUpdates after the fetch, a release in hand: lines 193-206
AfterFetchCheck(i, release) ==
    IF "tag_name" \in release.missing
    THEN /\ inv' = [inv EXCEPT ![i] = Return(@, "error")]
         /\ queue' = queue
    ELSE IF ~HasUpdate(release.tag_name, currentVersion)
    THEN /\ inv' = [inv EXCEPT ![i] = Return(@, "uptodate")]
         /\ queue' = queue
    ELSE /\ inv' = [inv EXCEPT ![i] = [@ EXCEPT !.pc = "dismissed", !.release = release]]
         /\ queue' = Append(queue, StoreOp(i, "get", UPDATE_DISMISSED_KEY, <<>>))

\* forceCheckForUpdates reporting no update for a dismissed tag
AfterFetchForceHonoursDismissal(i, release) ==
    /\ inv' = [inv EXCEPT ![i] =
                  IF release.missing # {}
                  THEN [Return(@, "threw") EXCEPT !.release = release]
                  ELSE Return([@ EXCEPT !.result =
                                   Some([ForceResult(release, currentVersion) EXCEPT
                                            !.hasUpdate =
                                                @ /\ store.dismissed # Some(release.tag_name)])],
                              "result")]
    /\ queue' = queue

\* forceCheckForUpdates after the fetch, a release in hand: lines 261-272
AfterFetchForce(i, release) ==
    /\ inv' = [inv EXCEPT ![i] =
                  IF release.missing # {}
                  THEN [Return(@, "threw") EXCEPT !.release = release]
                  ELSE Return([@ EXCEPT !.result =
                                   Some(ForceResult(release, currentVersion))], "result")]
    /\ queue' = queue

\* a caller that is told when the fetch failed
FetchReturnReportsFailure(i, outcome, release) ==
    /\ inv[i].pc = "fetch"
    /\ IF ~FetchResult(outcome, release).some
       THEN /\ inv' = [inv EXCEPT ![i] =
                          Return([@ EXCEPT !.result = IF inv[i].kind = "force"
                                                      THEN Some(NoUpdateResult) ELSE None],
                                 IF outcome = "notfound" THEN "norelease" ELSE "error")]
            /\ queue' = queue
       ELSE IF inv[i].kind = "force"
            THEN AfterFetchForce(i, FetchResult(outcome, release).v)
            ELSE AfterFetchCheck(i, FetchResult(outcome, release).v)
    /\ UNCHANGED <<clock, ticks, store, alerts, currentVersion, cmp, integrity, req, linking, hist>>

\* fetchLatestRelease returns to its caller
FetchReturn(i, outcome, release) ==
    /\ inv[i].pc = "fetch"
    /\ IF ~FetchResult(outcome, release).some
       THEN /\ inv' = [inv EXCEPT ![i] =
                          Return([@ EXCEPT !.result = IF inv[i].kind = "force"
                                                      THEN Some(NoUpdateResult) ELSE None],
                                 "norelease")]
            /\ queue' = queue
       ELSE IF inv[i].kind = "force"
            THEN AfterFetchForce(i, FetchResult(outcome, release).v)
            ELSE AfterFetchCheck(i, FetchResult(outcome, release).v)
    /\ UNCHANGED <<clock, ticks, store, alerts, currentVersion, cmp, integrity, req, linking, hist>>

\* isVersionDismissed taking a failed read for a dismissal
DismissedReadFailsClosed(i, ok) ==
    /\ inv[i].pc = "dismissed"
    /\ HeadIs(i, "get", UPDATE_DISMISSED_KEY)
    /\ queue' = Tail(queue)
    /\ LET rec == [inv[i] EXCEPT !.readError = ~ok,
                                 !.dismissed = IF ok THEN store.dismissed ELSE None]
           release == inv[i].release
       IN IF ~ok \/ DismissedEquals(store.dismissed, release.tag_name)
          THEN /\ inv' = [inv EXCEPT ![i] = Return(rec, "dismissed")]
               /\ alerts' = alerts
          ELSE IF "assets" \in release.missing
          THEN /\ inv' = [inv EXCEPT ![i] = Return(rec, "error")]
               /\ alerts' = alerts
          ELSE /\ inv' = [inv EXCEPT ![i] =
                             Return([rec EXCEPT !.prompt =
                                        Some(Dialog(release, DownloadUrl(release)))],
                                    "prompt")]
               /\ alerts' = alerts \cup {Dialog(release, DownloadUrl(release))}
    /\ UNCHANGED <<clock, ticks, store, currentVersion, cmp, integrity, req, linking, hist>>

\* checkForUpdates showing one dialog for the download and one for the page
DismissedReadShowsBoth(i, ok) ==
    /\ inv[i].pc = "dismissed"
    /\ HeadIs(i, "get", UPDATE_DISMISSED_KEY)
    /\ queue' = Tail(queue)
    /\ LET rec == [inv[i] EXCEPT !.readError = ~ok,
                                 !.dismissed = IF ok THEN store.dismissed ELSE None]
           release == inv[i].release
       IN IF ok /\ DismissedEquals(store.dismissed, release.tag_name)
          THEN /\ inv' = [inv EXCEPT ![i] = Return(rec, "dismissed")]
               /\ alerts' = alerts
          ELSE IF "assets" \in release.missing
          THEN /\ inv' = [inv EXCEPT ![i] = Return(rec, "error")]
               /\ alerts' = alerts
          ELSE /\ inv' = [inv EXCEPT ![i] =
                             Return([rec EXCEPT !.prompt =
                                        Some(Dialog(release, DownloadUrl(release)))],
                                    "prompt")]
               /\ alerts' = alerts \cup {Dialog(release, DownloadUrl(release)),
                                         Dialog(release, release.html_url)}
    /\ UNCHANGED <<clock, ticks, store, currentVersion, cmp, integrity, req, linking, hist>>

\* isVersionDismissed's getItem completes (ok) or rejects; checkForUpdates
\* returns for a dismissed version and shows the dialog otherwise: lines 204-217
DismissedRead(i, ok) ==
    /\ inv[i].pc = "dismissed"
    /\ HeadIs(i, "get", UPDATE_DISMISSED_KEY)
    /\ queue' = Tail(queue)
    /\ LET rec == [inv[i] EXCEPT !.readError = ~ok,
                                 !.dismissed = IF ok THEN store.dismissed ELSE None]
           release == inv[i].release
       IN IF ok /\ DismissedEquals(store.dismissed, release.tag_name)
          THEN /\ inv' = [inv EXCEPT ![i] = Return(rec, "dismissed")]
               /\ alerts' = alerts
          ELSE IF "assets" \in release.missing
          THEN /\ inv' = [inv EXCEPT ![i] = Return(rec, "error")]
               /\ alerts' = alerts
          ELSE /\ inv' = [inv EXCEPT ![i] =
                             Return([rec EXCEPT !.prompt =
                                        Some(Dialog(release, DownloadUrl(release)))],
                                    "prompt")]
               /\ alerts' = alerts \cup {Dialog(release, DownloadUrl(release))}
    /\ UNCHANGED <<clock, ticks, store, currentVersion, cmp, integrity, req, linking, hist>>

\* "Later": the dialog closes
PressLater(a) ==
    /\ a \in alerts
    /\ alerts' = alerts \ {a}
    /\ UNCHANGED <<clock, ticks, store, queue, inv, currentVersion, cmp, integrity, req, linking, hist>>

\* "Don't Ask Again": dismissVersion(release.tag_name) is called, not awaited
PressDontAskAgain(a) ==
    /\ a \in alerts
    /\ alerts' = alerts \ {a}
    /\ queue' = Append(queue, StoreOp(0, "set", UPDATE_DISMISSED_KEY, DismissValue(a.release)))
    /\ chosen' = Some(a.release.tag_name)
    /\ inv' = [i \in Inv |-> IF InFlight(i) THEN [inv[i] EXCEPT !.settled = FALSE]
                             ELSE inv[i]]
    /\ UNCHANGED <<clock, ticks, store, currentVersion, cmp, integrity, req, linking, applied, interrupted>>

\* "Download": Linking.openURL(downloadUrl) resolves (ok) or rejects, and then
\* the 'Error' alert is shown
PressDownload(a, ok) ==
    /\ a \in alerts
    /\ alerts' = alerts \ {a}
    /\ errorAlert' = (errorAlert \/ ~ok)
    /\ UNCHANGED <<clock, ticks, store, queue, inv, currentVersion, cmp, integrity, req, hist>>

\* the 'Error' alert is closed with its only button
PressOk ==
    /\ errorAlert
    /\ errorAlert' = FALSE
    /\ UNCHANGED <<clock, ticks, store, queue, inv, alerts, currentVersion, cmp, integrity, req, hist>>

LastTwo(log) == IF Len(log) > 2 THEN Tail(log) ELSE log

\* dismissVersion that keeps a version already dismissed
DismissWriteKeepFirst(ok) ==
    /\ HeadIs(0, "set", UPDATE_DISMISSED_KEY)
    /\ store' = IF ok /\ ~store.dismissed.some
                THEN [store EXCEPT !.dismissed = Some(Head(queue).val)] ELSE store
    /\ queue' = Tail(queue)
    /\ applied' = IF ok THEN LastTwo(Append(applied, Head(queue).val)) ELSE applied
    /\ UNCHANGED <<clock, ticks, inv, alerts, currentVersion, cmp, integrity, req, linking, chosen, interrupted>>

\* dismissVersion's setItem completes (ok) or rejects, which is swallowed
DismissWrite(ok) ==
    /\ HeadIs(0, "set", UPDATE_DISMISSED_KEY)
    /\ store' = IF ok THEN [store EXCEPT !.dismissed = Some(Head(queue).val)] ELSE store
    /\ queue' = Tail(queue)
    /\ applied' = IF ok THEN LastTwo(Append(applied, Head(queue).val)) ELSE applied
    /\ UNCHANGED <<clock, ticks, inv, alerts, currentVersion, cmp, integrity, req, linking, chosen, interrupted>>

\* time passes
Tick(d) ==
    /\ ticks < MaxTicks
    /\ ticks' = ticks + 1
    /\ clock' = clock + d
    /\ UNCHANGED <<store, queue, inv, alerts, currentVersion, cmp, integrity, req, linking, hist>>

\* the check time persisted by an invocation a restart cuts short in its fetch
CutShort(track) ==
    IF track /\ \E i \in Inv : inv[i].pc = "fetch" /\ inv[i].record = "stored"
    THEN store.lastCheck ELSE interrupted

\* a restart that loses the store
CrashWipes(track) ==
    /\ inv' = [i \in Inv |-> IdleInv]
    /\ queue' = <<>>
    /\ alerts' = {}
    /\ store' = [lastCheck |-> None, dismissed |-> None]
    /\ errorAlert' = FALSE
    /\ req' = IdleReq
    /\ isInitialized' = FALSE
    /\ prepares' = 0
    /\ att' = [i \in Inv |-> IdleAtt]
    /\ interrupted' = CutShort(track)
    /\ UNCHANGED <<clock, ticks, currentVersion, cmp, platform, chosen, applied>>

\* the process is killed and the app starts again: only the store survives;
\* track: the history variable interrupted is kept
Crash(track) ==
    /\ inv' = [i \in Inv |-> IdleInv]
    /\ queue' = <<>>
    /\ alerts' = {}
    /\ errorAlert' = FALSE
    /\ req' = IdleReq
    /\ isInitialized' = FALSE
    /\ prepares' = 0
    /\ att' = [i \in Inv |-> IdleAtt]
    /\ interrupted' = CutShort(track)
    /\ UNCHANGED <<clock, ticks, store, currentVersion, cmp, platform, chosen, applied>>

\* one invocation at a time, in slot 1; every download page opens
Next ==
    \/ \E force \in BOOLEAN : StartCheck(1, force)
    \/ StartForce(1)
    \/ \E ok \in BOOLEAN : GateRead(1, ok)
    \/ \E ok \in BOOLEAN : RecordDone(1, ok)
    \/ \E o \in FetchOutcomes, r \in Releases : FetchReturn(1, o, r)
    \/ \E ok \in BOOLEAN : DismissedRead(1, ok)
    \/ \E r \in Releases : PressLater(Dialog(r, DownloadUrl(r)))
    \/ \E r \in Releases : PressDontAskAgain(Dialog(r, DownloadUrl(r)))
    \/ \E r \in Releases : PressDownload(Dialog(r, DownloadUrl(r)), TRUE)
    \/ \E ok \in BOOLEAN : DismissWrite(ok)
    \/ \E d \in {1, CHECK_INTERVAL - 1} : Tick(d)
    \/ Crash(FALSE)

Spec == Init /\ [][Next]_vars

\* one invocation at a time at one instant, a download page that may fail to
\* open included
NextDialog ==
    \/ \E force \in BOOLEAN : StartCheck(1, force)
    \/ StartForce(1)
    \/ \E ok \in BOOLEAN : GateRead(1, ok)
    \/ \E ok \in BOOLEAN : RecordDone(1, ok)
    \/ \E o \in FetchOutcomes, r \in Releases : FetchReturn(1, o, r)
    \/ \E ok \in BOOLEAN : DismissedRead(1, ok)
    \/ \E r \in Releases : PressLater(Dialog(r, DownloadUrl(r)))
    \/ \E r \in Releases : PressDontAskAgain(Dialog(r, DownloadUrl(r)))
    \/ \E r \in Releases, ok \in BOOLEAN : PressDownload(Dialog(r, DownloadUrl(r)), ok)
    \/ PressOk
    \/ \E ok \in BOOLEAN : DismissWrite(ok)
    \/ Crash(FALSE)

SpecDialog == Init /\ [][NextDialog]_vars

\* overlapping invocations of the throttle path: the release index has no
\* release to offer
NextOverlap ==
    \/ \E i \in Inv, force \in BOOLEAN : StartCheck(i, force)
    \/ \E i \in Inv : StartForce(i)
    \/ \E i \in Inv, ok \in BOOLEAN : GateRead(i, ok)
    \/ \E i \in Inv, ok \in BOOLEAN : RecordDone(i, ok)
    \/ \E i \in Inv, o \in FetchOutcomes \ {"ok"} : FetchReturn(i, o, NoRelease)
    \/ \E d \in {1, CHECK_INTERVAL - 1} : Tick(d)
    \/ Crash(TRUE)

SpecOverlap == Init /\ [][NextOverlap]_vars

\* the automatic checks alone: checkForUpdates() as the app calls it at start,
\* overlapping and across restarts
NextAutomatic ==
    \/ \E i \in Inv : StartCheck(i, FALSE)
    \/ \E i \in Inv, ok \in BOOLEAN : GateRead(i, ok)
    \/ \E i \in Inv, ok \in BOOLEAN : RecordDone(i, ok)
    \/ \E i \in Inv, o \in FetchOutcomes \ {"ok"} : FetchReturn(i, o, NoRelease)
    \/ \E d \in {1, CHECK_INTERVAL - 1} : Tick(d)
    \/ Crash(TRUE)

SpecAutomatic == Init /\ [][NextAutomatic]_vars

\* a forced check and the automatic checks that overlap with it or follow it
\* within one process; the release index answers with a newer release, with
\* a body lacking assets, or not at all
NextForcedWindow ==
    \/ StartForce(1)
    \/ StartCheck(1, TRUE)
    \/ \E i \in Inv : StartCheck(i, FALSE)
    \/ \E i \in Inv, ok \in BOOLEAN : GateRead(i, ok)
    \/ \E i \in Inv, ok \in BOOLEAN : RecordDone(i, ok)
    \/ \E i \in Inv, o \in {"ok", "timeout"}, r \in Releases :
          r.html_url \in {"page-1.1.0", "page-2"} /\ FetchReturn(i, o, r)
    \/ \E i \in Inv : DismissedRead(i, TRUE)
    \/ \E d \in {1, CHECK_INTERVAL - 1} : Tick(d)

SpecForcedWindow == Init /\ [][NextForcedWindow]_vars

\* automatic checks overlapping within one instant of one process: the store
\* completes every operation and the release index answers with a release
NextRace ==
    \/ \E i \in Inv : StartCheck(i, FALSE)
    \/ \E i \in Inv : GateRead(i, TRUE)
    \/ \E i \in Inv : RecordDone(i, TRUE)
    \/ \E i \in Inv, r \in Releases : FetchReturn(i, "ok", r)
    \/ \E i \in Inv : DismissedRead(i, TRUE)

SpecRace == Init /\ [][NextRace]_vars

(* --------------------------- Release Fetcher -------------------------- *)

\* response.ok
ResponseOk(status) == status >= 200 /\ status <= 299

\* every status but 404 goes on to the body
OnResponseOnly404(status) == IF status = 404 THEN "notfound" ELSE "body"

\* lines 120-128: what a response with this status leads to
OnResponse(status) ==
    IF ~ResponseOk(status)
    THEN IF status = 404 THEN "notfound" ELSE "status"
    ELSE "body"

\* the call returns what FetchResult gives for the outcome
Returned(r, outcome, release) ==
    [r EXCEPT !.phase = "returned", !.outcome = outcome,
              !.result = FetchResult(outcome, release)]

\* the rest of the program, which a call of fetchLatestRelease leaves alone
rest == <<ticks, store, queue, inv, alerts, currentVersion, cmp, linking, integrity, hist>>

\* fetchLatestRelease is called: lines 107-116, the timer armed and the GET
\* issued.  A timer an earlier call left armed aborts a settled request, which
\* does nothing, and is followed no further.
FetchCall ==
    /\ req.phase \in {"idle", "returned"}
    /\ req.calls < MaxFetches
    /\ req' = [IdleReq EXCEPT !.phase = "pending", !.timer = TRUE,
                              !.deadline = clock + FETCH_TIMEOUT,
                              !.calls = req.calls + 1]
    /\ UNCHANGED <<clock, rest>>

\* the response arrives and fetch resolves: clearTimeout, then lines 120-128
Respond(status) ==
    /\ req.phase = "pending"
    /\ LET r == [req EXCEPT !.timer = FALSE, !.status = status]
       IN req' = IF OnResponse(status) = "body"
                 THEN [r EXCEPT !.phase = "body"]
                 ELSE Returned(r, OnResponse(status), NoRelease)
    /\ UNCHANGED <<clock, rest>>

\* fetch rejects for a transport failure: the catch returns null, the timer
\* stays armed
TransportFail ==
    /\ req.phase = "pending"
    /\ req' = Returned(req, "transport", NoRelease)
    /\ UNCHANGED <<clock, rest>>

\* the timer fires at its deadline: controller.abort() rejects a pending fetch
TimerFires ==
    /\ req.timer
    /\ clock' = Max(clock, req.deadline)
    /\ req' = IF req.phase = "pending"
              THEN Returned([req EXCEPT !.timer = FALSE], "timeout", NoRelease)
              ELSE [req EXCEPT !.timer = FALSE]
    /\ UNCHANGED rest

\* response.json() resolves with the body
BodyParsed(release) ==
    /\ req.phase = "body"
    /\ req' = Returned([req EXCEPT !.body = Some(release)], "ok", release)
    /\ UNCHANGED <<clock, rest>>

\* response.json() rejects: the body is not JSON
BodyUnparsable ==
    /\ req.phase = "body"
    /\ req' = Returned(req, "unparsable", NoRelease)
    /\ UNCHANGED <<clock, rest>>

\* calls of fetchLatestRelease, one after the other; the release index may
\* stay silent or stop in the middle of a body, the timer fires when armed
NextFetch ==
    \/ FetchCall
    \/ \E status \in Statuses : Respond(status)
    \/ TransportFail
    \/ TimerFires
    \/ \E r \in Releases : BodyParsed(r)
    \/ BodyUnparsable

SpecFetch == Init /\ [][NextFetch]_vars /\ WF_vars(TimerFires)

(* --------------------- calls of the Version Comparator ---------------- *)

\* the arguments of a call of compareVersions
InitCompare ==
    /\ Start
    /\ platform = "android"
    /\ \E x, y \in VersionInputs :
          cmp = [IdleCmp EXCEPT !.a = x.text, !.numbersA = x.numbers,
                                !.b = y.text, !.numbersB = y.numbers]

\* compareVersions(a, b) returns
Compare ==
    /\ ~cmp.result.some
    /\ cmp' = [cmp EXCEPT !.result = Some(compareVersions(cmp.a, cmp.b))]
    /\ UNCHANGED <<clock, ticks, store, queue, inv, alerts, currentVersion, linking,
                   req, integrity, hist>>

\* compareVersions applied to every pair of VersionInputs
NextCompare == Compare

SpecCompare == InitCompare /\ [][NextCompare]_vars

(* ------------------------- Attestation Verifier ----------------------- *)

\* the update checker's state, which appIntegrity.ts leaves alone
update == <<clock, ticks, store, queue, inv, alerts, currentVersion, cmp, linking, req, hist>>

\* a string in a condition: the empty string is falsy
Truthy(str) == str # <<>>

\* error instanceof Error ? error.message : 'Unknown error'
ErrorText(thrown) == IF thrown.isError THEN thrown.message ELSE <<"Unknown error">>

\* { valid: false, error }
Failure(error) == IntegrityResult(TRUE, "false", Some(error), "")

\* { valid: true }
Skipped == IntegrityResult(TRUE, "true", None, "")

\* isGenuineEnvironment without its catch
GenuineAnswerNoCatch(result) ==
    IF ~result.object THEN "threw"
    ELSE IF result.error.some /\ Truthy(result.error.v) THEN "true"
    ELSE result.valid

\* isGenuineEnvironment with the strict test of the error
GenuineAnswerStrict(result) ==
    IF ~result.object THEN "true"
    ELSE IF result.error.some /\ Truthy(result.error.v) /\ result.valid # "false"
    THEN "true"
    ELSE result.valid

\* isGenuineEnvironment, lines 120-132, on what verifyAppIntegrity returned:
\* reading a field of null throws, which the catch turns into true
GenuineAnswer(result) ==
    IF ~result.object THEN "true"
    ELSE IF result.error.some /\ Truthy(result.error.v) THEN "true"
    ELSE result.valid

AttInFlight(i) == att[i].pc \notin {"idle", "done"}

\* verifyAppIntegrity returns result; isGenuineEnvironment, when it is the
\* function called, goes on to its answer
Finish(a, result) ==
    [a EXCEPT !.pc = "done", !.result = Some(result),
              !.answer = IF a.entry = "genuine" THEN GenuineAnswer(result) ELSE "none"]

\* initializeIntegrity that makes no second call of prepareIntegrityToken
\* while one is in progress
InitializeStartSingleFlight ==
    IF platform # "android" THEN "false"
    ELSE IF CLOUD_PROJECT_NUMBER = "" THEN "false"
    ELSE IF isInitialized THEN "true"
    ELSE IF \E j \in Inv : att[j].pc = "prepare" THEN "true"
    ELSE "prepare"

\* initializeIntegrity that never looks at isInitialized
InitializeStartNoFlag ==
    IF platform # "android" THEN "false"
    ELSE IF CLOUD_PROJECT_NUMBER = "" THEN "false"
    ELSE "prepare"

\* initializeIntegrity up to its first await, lines 30-47: "false", "true", or
\* "prepare" when prepareIntegrityToken is called
InitializeStart ==
    IF platform # "android" THEN "false"
    ELSE IF CLOUD_PROJECT_NUMBER = "" THEN "false"
    ELSE IF isInitialized THEN "true"
    ELSE "prepare"

\* initializeIntegrity() is called
CallInitialize(i) ==
    /\ ~AttInFlight(i)
    /\ InitializeStart = "prepare" => prepares < MaxPrepares
    /\ att' = [att EXCEPT ![i] =
                  IF InitializeStart = "prepare"
                  THEN [IdleAtt EXCEPT !.pc = "prepare", !.entry = "init", !.prepared = TRUE]
                  ELSE [IdleAtt EXCEPT !.pc = "done", !.entry = "init",
                                       !.init = InitializeStart]]
    /\ prepares' = IF InitializeStart = "prepare" THEN prepares + 1 ELSE prepares
    /\ UNCHANGED <<platform, isInitialized, update>>

\* verifyAppIntegrity that leaves the platform to initializeIntegrity
VerifyStartNoPlatformCheck ==
    IF isInitialized THEN "token"
    ELSE IF InitializeStart = "prepare" THEN "prepare"
    ELSE IF InitializeStart = "true" THEN "token"
    ELSE "uninitialized"

\* verifyAppIntegrity up to its first await, lines 61-78: "skipped",
\* "uninitialized", "prepare" or "token"
VerifyStart ==
    IF platform # "android" THEN "skipped"
    ELSE IF isInitialized THEN "token"
    ELSE IF InitializeStart = "prepare" THEN "prepare"
    ELSE IF InitializeStart = "true" THEN "token"
    ELSE "uninitialized"

\* verifyAppIntegrity() is called, by isGenuineEnvironment or directly
CallVerify(i, entry) ==
    /\ ~AttInFlight(i)
    /\ entry \in {"verify", "genuine"}
    /\ VerifyStart = "prepare" => prepares < MaxPrepares
    /\ LET a == [IdleAtt EXCEPT !.entry = entry]
       IN att' = [att EXCEPT ![i] =
                     CASE VerifyStart = "skipped" -> Finish(a, Skipped)
                       [] VerifyStart = "uninitialized" ->
                              Finish([a EXCEPT !.init = "false"],
                                     Failure(<<"Integrity not initialized">>))
                       [] VerifyStart = "prepare" ->
                              [a EXCEPT !.pc = "prepare", !.prepared = TRUE]
                       [] OTHER -> [a EXCEPT !.pc = "token", !.tokenReqs = 1]]
    /\ prepares' = IF VerifyStart = "prepare" THEN prepares + 1 ELSE prepares
    /\ UNCHANGED <<platform, isInitialized, update>>

\* initializeIntegrity that sets isInitialized before the outcome is known
PrepareDoneSetsReady(i, ok) ==
    /\ att[i].pc = "prepare"
    /\ isInitialized' = TRUE
    /\ LET a == [att[i] EXCEPT !.init = IF ok THEN "true" ELSE "false"]
       IN att' = [att EXCEPT ![i] =
                     IF a.entry = "init" THEN [a EXCEPT !.pc = "done"]
                     ELSE IF ~ok THEN Finish(a, Failure(<<"Integrity not initialized">>))
                     ELSE [a EXCEPT !.pc = "token", !.tokenReqs = a.tokenReqs + 1]]
    /\ UNCHANGED <<platform, prepares, update>>

\* initializeIntegrity that stores the outcome of the last prepare
PrepareDoneStoresOutcome(i, ok) ==
    /\ att[i].pc = "prepare"
    /\ isInitialized' = ok
    /\ LET a == [att[i] EXCEPT !.init = IF ok THEN "true" ELSE "false"]
       IN att' = [att EXCEPT ![i] =
                     IF a.entry = "init" THEN [a EXCEPT !.pc = "done"]
                     ELSE IF ~ok THEN Finish(a, Failure(<<"Integrity not initialized">>))
                     ELSE [a EXCEPT !.pc = "token", !.tokenReqs = a.tokenReqs + 1]]
    /\ UNCHANGED <<platform, prepares, update>>

\* initializeIntegrity that never sets isInitialized
PrepareDoneForgets(i, ok) ==
    /\ att[i].pc = "prepare"
    /\ LET a == [att[i] EXCEPT !.init = IF ok THEN "true" ELSE "false"]
       IN att' = [att EXCEPT ![i] =
                     IF a.entry = "init" THEN [a EXCEPT !.pc = "done"]
                     ELSE IF ~ok THEN Finish(a, Failure(<<"Integrity not initialized">>))
                     ELSE [a EXCEPT !.pc = "token", !.tokenReqs = a.tokenReqs + 1]]
    /\ UNCHANGED <<platform, isInitialized, prepares, update>>

\* prepareIntegrityToken resolves (ok) or rejects: lines 48-53, and in
\* verifyAppIntegrity lines 68-78
PrepareDone(i, ok) ==
    /\ att[i].pc = "prepare"
    /\ isInitialized' = (isInitialized \/ ok)
    /\ LET a == [att[i] EXCEPT !.init = IF ok THEN "true" ELSE "false"]
       IN att' = [att EXCEPT ![i] =
                     IF a.entry = "init" THEN [a EXCEPT !.pc = "done"]
                     ELSE IF ~ok THEN Finish(a, Failure(<<"Integrity not initialized">>))
                     ELSE [a EXCEPT !.pc = "token", !.tokenReqs = a.tokenReqs + 1]]
    /\ UNCHANGED <<platform, prepares, update>>

\* verifyAppIntegrity that posts whatever requestIntegrityToken resolved with
TokenReceivedPostsAny(i, token) ==
    /\ att[i].pc = "token"
    /\ att' = [att EXCEPT ![i] = [@ EXCEPT !.pc = "post", !.token = token,
                                           !.sent = token, !.posts = @ + 1]]
    /\ UNCHANGED <<platform, isInitialized, prepares, update>>

\* requestIntegrityToken resolves: lines 80-94
TokenReceived(i, token) ==
    /\ att[i].pc = "token"
    /\ att' = [att EXCEPT ![i] =
                  IF token = ""
                  THEN Finish(@, Failure(<<"No integrity token received">>))
                  ELSE [@ EXCEPT !.pc = "post", !.token = token, !.sent = token,
                                 !.posts = @ + 1]]
    /\ UNCHANGED <<platform, isInitialized, prepares, update>>

\* requestIntegrityToken rejects: lines 106-111
TokenRejected(i, thrown) ==
    /\ att[i].pc = "token"
    /\ att' = [att EXCEPT ![i] = Finish(@, Failure(ErrorText(thrown)))]
    /\ UNCHANGED <<platform, isInitialized, prepares, update>>

\* the verification endpoint answers: lines 96-103
PostResponded(i, status) ==
    /\ att[i].pc = "post"
    /\ att' = [att EXCEPT ![i] =
                  IF ~ResponseOk(status)
                  THEN Finish([@ EXCEPT !.status = status],
                              Failure(<<"Verification failed: ">> \o ToString(status)))
                  ELSE [@ EXCEPT !.pc = "json", !.status = status]]
    /\ UNCHANGED <<platform, isInitialized, prepares, update>>

\* fetch rejects: lines 106-111
PostRejected(i, thrown) ==
    /\ att[i].pc = "post"
    /\ att' = [att EXCEPT ![i] = Finish(@, Failure(ErrorText(thrown)))]
    /\ UNCHANGED <<platform, isInitialized, prepares, update>>

\* verifyAppIntegrity that trusts only a recognised app
JsonParsedChecked(i, body) ==
    /\ att[i].pc = "json"
    /\ att' = [att EXCEPT ![i] =
                  Finish([@ EXCEPT !.body = Some(body)],
                         IF body.object /\ body.appIntegrity # "PLAY_RECOGNIZED"
                         THEN [body EXCEPT !.valid = "false"] ELSE body)]
    /\ UNCHANGED <<platform, isInitialized, prepares, update>>

\* response.json() resolves: the body is returned as the IntegrityResult
JsonParsed(i, body) ==
    /\ att[i].pc = "json"
    /\ att' = [att EXCEPT ![i] = Finish([@ EXCEPT !.body = Some(body)], body)]
    /\ UNCHANGED <<platform, isInitialized, prepares, update>>

\* response.json() rejects: lines 106-111
JsonRejected(i, thrown) ==
    /\ att[i].pc = "json"
    /\ att' = [att EXCEPT ![i] = Finish(@, Failure(ErrorText(thrown)))]
    /\ UNCHANGED <<platform, isInitialized, prepares, update>>

\* calls into appIntegrity.ts, one at a time, on any platform and across
\* restarts
NextIntegrity ==
    \/ CallInitialize(1)
    \/ \E entry \in {"verify", "genuine"} : CallVerify(1, entry)
    \/ \E ok \in BOOLEAN : PrepareDone(1, ok)
    \/ \E token \in Tokens : TokenReceived(1, token)
    \/ \E thrown \in Throwables : TokenRejected(1, thrown)
    \/ \E status \in Statuses : PostResponded(1, status)
    \/ \E thrown \in Throwables : PostRejected(1, thrown)
    \/ \E body \in Bodies : JsonParsed(1, body)
    \/ \E thrown \in Throwables : JsonRejected(1, thrown)
    \/ Crash(FALSE)

SpecIntegrity == InitIntegrity /\ [][NextIntegrity]_vars

\* the same calls where the platform trust service settles every call made to
\* it; the verification endpoint may stay silent, and nothing in
\* verifyAppIntegrity cancels the POST
SpecIntegrityLive ==
    /\ InitIntegrity
    /\ [][NextIntegrity]_vars
    /\ WF_vars(\E ok \in BOOLEAN : PrepareDone(1, ok))
    /\ WF_vars(\E token \in Tokens : TokenReceived(1, token))

\* overlapping calls into appIntegrity.ts on android, across restarts
NextIntegrityOverlap ==
    \/ \E i \in Inv : CallInitialize(i)
    \/ \E i \in Inv, entry \in {"verify", "genuine"} : CallVerify(i, entry)
    \/ \E i \in Inv, ok \in BOOLEAN : PrepareDone(i, ok)
    \/ \E i \in Inv, token \in Tokens : TokenReceived(i, token)
    \/ \E i \in Inv, thrown \in Throwables : TokenRejected(i, thrown)
    \/ \E i \in Inv, status \in Statuses : PostResponded(i, status)
    \/ \E i \in Inv, thrown \in Throwables : PostRejected(i, thrown)
    \/ \E i \in Inv, body \in Bodies : JsonParsed(i, body)
    \/ \E i \in Inv, thrown \in Throwables : JsonRejected(i, thrown)
    \/ Crash(FALSE)

SpecIntegrityOverlap == Init /\ [][NextIntegrityOverlap]_vars

\* the three flows side by side at one instant, store and services answering:
\* a checkForUpdates or forceCheckForUpdates invocation with the dialog it
\* shows, and a verification
NextFlows ==
    \/ \E force \in BOOLEAN : StartCheck(1, force)
    \/ StartForce(1)
    \/ GateRead(1, TRUE)
    \/ RecordDone(1, TRUE)
    \/ \E o \in {"ok", "timeout"}, r \in Releases : FetchReturn(1, o, r)
    \/ DismissedRead(1, TRUE)
    \/ \E r \in Releases : PressLater(Dialog(r, DownloadUrl(r)))
    \/ \E r \in Releases : PressDontAskAgain(Dialog(r, DownloadUrl(r)))
    \/ \E r \in Releases : PressDownload(Dialog(r, DownloadUrl(r)), TRUE)
    \/ DismissWrite(TRUE)
    \/ CallVerify(1, "verify")
    \/ PrepareDone(1, TRUE)
    \/ \E token \in Tokens : TokenReceived(1, token)
    \/ PostResponded(1, 200)
    \/ JsonParsed(1, IntegrityResult(TRUE, "true", None, "PLAY_RECOGNIZED"))

SpecFlows == Init /\ [][NextFlows]_vars

(* ------------------------- steps of an invocation --------------------- *)

\* invocation i starts in this step
StartStep(i) == ~InFlight(i) /\ inv'[i].pc \notin {"idle", "done"}

\* invocation i's throttle gate is decided in this step
GateStep(i) == inv[i].pc = "gate" /\ inv'[i].pc \in {"record", "done"}

\* invocation i's isVersionDismissed returns in this step
ReadStep(i) == inv[i].pc = "dismissed" /\ inv'[i].pc = "done"

\* invocation i shows the update dialog in this step
PromptStep(i) == ReadStep(i) /\ inv'[i].outcome = "prompt"

\* the persisted lastCheckAt in milliseconds, NaN when none is persisted
CheckTime(s) == IF s.lastCheck.some THEN ParseInt(s.lastCheck.v) ELSE NaN

\* the value dismissVersion persisted last
LastApplied == applied[Len(applied)]

(* -------------------------------- claims ------------------------------ *)

\* C1: in every invocation, forced or not, the release-index GET is issued
\* only after recordUpdateCheck was called and its await has returned; while
\* the fetch is in flight the invocation has no store operation outstanding.
C1_RecordBeforeFetch ==
    \A i \in Inv :
        /\ inv[i].fetched => inv[i].record \in {"stored", "failed"}
        /\ inv[i].pc = "fetch" => NoneOutstanding(i)

\* a non-forced checkForUpdates passed the gate, awaited the record and fetches
C1_Witness ==
    \E i \in Inv :
        /\ inv[i].pc = "fetch" /\ inv[i].kind = "check" /\ ~inv[i].force
        /\ inv[i].record = "stored"

C3_Original ==
    [][\A i \in Inv :
          /\ GateStep(i) =>
                (inv'[i].pc = "record"
                    <=> \/ ~store.lastCheck.some
                        \/ clock - ParseInt(store.lastCheck.v) >= CHECK_INTERVAL)
          /\ StartStep(i) /\ inv'[i].force => inv'[i].pc = "record"]_vars

\* C3 amended: the gate is due exactly when force is set, or the read of
\* last_update_check failed, or no lastCheckAt is persisted, or
\* now - lastCheckAt >= 24h (boundary inclusive).
C3_GateDueExactly ==
    [][\A i \in Inv :
          /\ GateStep(i) =>
                (inv'[i].pc = "record"
                    <=> \/ inv'[i].gateError
                        \/ ~store.lastCheck.some
                        \/ clock - ParseInt(store.lastCheck.v) >= CHECK_INTERVAL)
          /\ StartStep(i) /\ inv'[i].force => inv'[i].pc = "record"]_vars

\* the gate has just found a check recorded exactly 24h ago due
C3_Witness ==
    \E i \in Inv :
        /\ inv[i].pc = "record" /\ ~inv[i].force /\ ~inv[i].gateError
        /\ store.lastCheck.some
        /\ clock - ParseInt(store.lastCheck.v) = CHECK_INTERVAL

C6_ForcedAlwaysFetches ==
    \A i \in Inv :
        inv[i].force =>
            /\ inv[i].pc # "gate"
            /\ inv[i].outcome # "skipped"
            /\ inv[i].pc = "done" => inv[i].fetched
            /\ inv[i].kind = "force" =>
                  /\ ~inv[i].prompt.some
                  /\ inv[i].pc = "done" /\ inv[i].outcome # "threw" => inv[i].result.some
                  /\ inv[i].outcome = "result" =>
                        inv[i].result.v.hasUpdate
                            = (compareVersions(inv[i].result.v.latestVersion.v,
                                               currentVersion) > 0)

\* forceCheckForUpdates started less than 24h after the persisted check and
\* has issued the fetch
C6_Witness ==
    \E i \in Inv :
        /\ inv[i].kind = "force" /\ inv[i].early
        /\ inv[i].pc = "fetch" /\ inv[i].fetched

\* C7: a dialog is shown only by a checkForUpdates invocation that fetched a
\* release descriptor whose tag compares 1 against the running version and
\* whose raw tag differs from the dismissed version it read, if it read one;
\* no dialog on screen is for an equal or older tag.
C7_PromptOnlyIfNewer ==
    /\ \A i \in Inv :
          inv[i].prompt.some =>
              /\ inv[i].kind = "check" /\ inv[i].fetched /\ inv[i].outcome = "prompt"
              /\ inv[i].prompt.v.release \in Releases
              /\ compareVersions(inv[i].prompt.v.release.tag_name, currentVersion) = 1
              /\ inv[i].readError
                    \/ inv[i].dismissed # Some(inv[i].prompt.v.release.tag_name)
    /\ \A a \in alerts : compareVersions(a.release.tag_name, currentVersion) = 1

\* a prompt was shown by an invocation that read another version as dismissed
C7_Witness ==
    \E i \in Inv :
        /\ inv[i].outcome = "prompt" /\ ~inv[i].readError
        /\ inv[i].dismissed.some
        /\ inv[i].prompt.v \in alerts

C9_Original ==
    [][\A i \in Inv :
          ReadStep(i) =>
              (inv'[i].outcome = "dismissed"
                  <=> store.dismissed = Some(inv[i].release.tag_name))]_vars

\* C9 amended: isVersionDismissed(v) is true iff its read of dismissed_version
\* succeeds and the persisted value equals v by exact string equality.
C9_ExactStringMatch ==
    [][\A i \in Inv :
          ReadStep(i) =>
              (inv'[i].outcome = "dismissed"
                  <=> /\ ~inv'[i].readError
                      /\ store.dismissed = Some(inv[i].release.tag_name))]_vars

\* a tag the Version Comparator treats as equal to the dismissed one was read
\* as not dismissed
C9_Witness ==
    \E i \in Inv :
        /\ inv[i].outcome = "prompt" /\ ~inv[i].readError
        /\ inv[i].dismissed.some
        /\ inv[i].dismissed.v # inv[i].prompt.v.release.tag_name
        /\ compareVersions(inv[i].dismissed.v, inv[i].prompt.v.release.tag_name) = 0

\* C10: the store holds exactly the version dismissVersion persisted last; after
\* two different versions were persisted one after the other, a successful
\* isVersionDismissed is true for the second and false for the first.
C10_DismissOverwrites ==
    /\ [](store.dismissed = IF applied = <<>> THEN None ELSE Some(LastApplied))
    /\ [][\A i \in Inv :
             ReadStep(i) /\ ~inv'[i].readError
                         /\ Len(applied) = 2 /\ applied[1] # applied[2]
                 => /\ inv[i].release.tag_name = applied[2]
                          => inv'[i].outcome = "dismissed"
                    /\ inv[i].release.tag_name = applied[1]
                          => inv'[i].outcome # "dismissed"]_vars

\* a version whose dismissal was overwritten by another is prompted again
C10_Witness ==
    \E i \in Inv :
        /\ inv[i].outcome = "prompt" /\ ~inv[i].readError
        /\ Len(applied) = 2 /\ applied[1] # applied[2]
        /\ inv[i].prompt.v.release.tag_name = applied[1]
        /\ inv[i].dismissed = Some(applied[2])

\* a restart: no invocation, no store operation and no dialog survives
RestartStep == queue' = <<>> /\ alerts' = {} /\ inv' = [i \in Inv |-> IdleInv]

\* the write of dismissed_version issued for dialog a
DismissOp(a) == StoreOp(0, "set", UPDATE_DISMISSED_KEY, a.release.tag_name)

\* a button of dialog a is pressed in this step
CloseStep(a) == a \in alerts /\ alerts' = alerts \ {a} /\ ~RestartStep

\* the head of the queue, a write of dismissed_version, leaves the queue
DismissDoneStep == HeadIs(0, "set", UPDATE_DISMISSED_KEY) /\ queue' = Tail(queue)

\* the buttons leave the store alone; of the three only "Don't Ask Again"
\* issues a store operation, the write of the raw tag to dismissed_version
ButtonsFrame ==
    /\ \A a \in alerts :
          CloseStep(a) =>
              /\ store' = store
              /\ \/ queue' = queue
                 \/ /\ queue' = Append(queue, DismissOp(a))
                    /\ chosen' = Some(a.release.tag_name)
                    /\ errorAlert' = errorAlert
    /\ errorAlert' # errorAlert => store' = store /\ (queue' = queue \/ RestartStep)
    /\ store'.dismissed # store.dismissed =>
          /\ DismissDoneStep
          /\ store'.dismissed = Some(Head(queue).val)
          /\ store'.lastCheck = store.lastCheck

\* C11 as stated: "Later" and "Download" change nothing persisted, and "Don't
\* Ask Again" sets dismissed_version to the raw tag of the prompted release:
\* when the write it issued leaves the queue, dismissed_version holds the tag.
C11_Original ==
    [][/\ ButtonsFrame
       /\ DismissDoneStep => store'.dismissed = Some(Head(queue).val)]_vars

\* C11 amended: "Later" and "Download" change nothing persisted; "Don't Ask
\* Again" issues one store operation, the write of the raw tag of the prompted
\* release to dismissed_version, and dismissed_version changes only when such
\* a write succeeds, to the tag it carries; last_update_check is left alone.
C11_OnlyDismissPersists == [][ButtonsFrame]_vars

\* a "Don't Ask Again" on the prefixed tag was persisted and a download page
\* failed to open
C11_Witness ==
    /\ store.dismissed = Some(<<"v", "1", ".", "1", ".", "0">>)
    /\ chosen = store.dismissed
    /\ errorAlert

\* the .apk assets of a release, by index
ApkIndices(r) ==
    { k \in 1..Len(r.assets) :
        /\ Len(r.assets[k].name) >= 4
        /\ SubSeq(r.assets[k].name, Len(r.assets[k].name) - 3, Len(r.assets[k].name))
              = <<".", "a", "p", "k">> }

FirstApk(r) == CHOOSE k \in ApkIndices(r) : \A j \in ApkIndices(r) : k <= j

\* url is the first .apk asset's URL, and the page URL iff there is none
TargetAsStated(r, url) ==
    /\ ApkIndices(r) = {} <=> url = r.html_url
    /\ ApkIndices(r) # {} => url = r.assets[FirstApk(r)].browser_download_url

\* url is the first .apk asset's URL when that is not empty, the page URL
\* otherwise
TargetAsCoded(r, url) ==
    IF ApkIndices(r) # {} /\ r.assets[FirstApk(r)].browser_download_url # ""
    THEN url = r.assets[FirstApk(r)].browser_download_url
    ELSE url = r.html_url

\* the well-formed releases whose displayed version is v (one, in Releases)
ReleasesOf(v) == { r \in Releases : r.missing = {} /\ StripV(r.tag_name) = v }

\* C12 as stated: the download target of every dialog and of every result of
\* forceCheckForUpdates is the URL of the first .apk asset, and the page URL
\* iff no asset is an .apk.
C12_Original ==
    /\ \A a \in alerts : TargetAsStated(a.release, a.downloadUrl)
    /\ \A i \in Inv :
          inv[i].outcome = "result" =>
              \A r \in ReleasesOf(inv[i].result.v.latestVersion.v) :
                  TargetAsStated(r, inv[i].result.v.downloadUrl.v)

\* C12 amended: the download target of every dialog and of every result of
\* forceCheckForUpdates is the URL of the first .apk asset in descriptor
\* order when that URL is not empty, and the page URL otherwise.
C12_DownloadTarget ==
    /\ \A a \in alerts : TargetAsCoded(a.release, a.downloadUrl)
    /\ \A i \in Inv :
          inv[i].outcome = "result" =>
              \A r \in ReleasesOf(inv[i].result.v.latestVersion.v) :
                  TargetAsCoded(r, inv[i].result.v.downloadUrl.v)

\* a dialog offers the first of two .apk assets, listed after another file,
\* and forceCheckForUpdates reported a release's page
C12_Witness ==
    /\ \E a \in alerts :
          /\ Cardinality(ApkIndices(a.release)) = 2 /\ FirstApk(a.release) = 2
          /\ a.downloadUrl = "apk-1.1.0"
    /\ \E i \in Inv :
          /\ inv[i].outcome = "result"
          /\ \E r \in ReleasesOf(inv[i].result.v.latestVersion.v) :
                inv[i].result.v.downloadUrl.v = r.html_url

\* a checkForUpdates invocation's fetch returns no descriptor in this step
NoDescriptorStep(i) ==
    /\ inv[i].pc = "fetch" /\ inv[i].kind = "check"
    /\ inv'[i].pc = "done" /\ inv'[i].outcome = "norelease"

\* no dialog, no error, no change of the store
EndsQuietly(i) ==
    /\ alerts' = alerts /\ errorAlert' = errorAlert
    /\ ~inv'[i].prompt.some
    /\ store' = store

NoErrorShown == errorAlert' /\ ~errorAlert => inv' = inv

\* C16 as stated: neither checkForUpdates nor forceCheckForUpdates ever
\* propagates an error to its caller or shows an error to the user.
C16_Original ==
    [][/\ \A i \in Inv : inv'[i].outcome # "threw"
       /\ NoErrorShown]_vars

\* C16 amended: checkForUpdates never propagates an error, and neither function
\* shows one; forceCheckForUpdates absorbs the failures of the store and of
\* the network and propagates an error only for a descriptor lacking fields.
C16_ErrorsAbsorbed ==
    [][/\ \A i \in Inv :
             inv'[i].outcome = "threw" =>
                 /\ inv'[i].kind = "force"
                 /\ inv'[i].release.missing # {}
                 /\ inv'[i].fetched
       /\ NoErrorShown]_vars

\* checkForUpdates absorbed a failed write of last_update_check and then a
\* descriptor lacking a field
C16_Witness ==
    \E i \in Inv :
        /\ inv[i].pc = "done" /\ inv[i].kind = "check"
        /\ inv[i].record = "failed" /\ inv[i].outcome = "error"

\* C14: fetchLatestRelease returns a descriptor only for a 2xx response, the
\* body it parsed, and returns null for a 404, for any other non-2xx status,
\* for a transport failure, for an aborted request and for a body that is not
\* JSON; it ends in no other way than by returning.
C14_FailsClosed ==
    /\ req.phase \in {"idle", "pending", "body", "returned"}
    /\ req.phase = "returned" =>
          /\ req.result.some =>
                ResponseOk(req.status) /\ req.body.some /\ req.result = req.body
          /\ req.status # 0 /\ ~ResponseOk(req.status) => req.result = None
          /\ req.outcome \in {"notfound", "status", "transport", "timeout", "unparsable"}
                => req.result = None
          /\ req.status = 404 <=> req.outcome = "notfound"

\* the second call returned null for a 500
C14_Witness ==
    /\ req.phase = "returned" /\ req.calls = 2
    /\ req.status = 500 /\ req.outcome = "status" /\ req.result = None

\* C15 as stated: every call of fetchLatestRelease returns: whenever a call is
\* awaiting the response or its body, it eventually returns.
C15_Original == (req.phase \in {"pending", "body"}) ~> (req.phase = "returned")

\* a call of verifyAppIntegrity, direct or through isGenuineEnvironment, that
\* has returned
Verified(i) == att[i].pc = "done" /\ att[i].entry \in {"verify", "genuine"}

\* C17 as stated: isGenuineEnvironment returns false only when
\* verifyAppIntegrity returned a result with valid = false and no error, and
\* returns true for every result that carries an error.
C17_Original ==
    \A i \in Inv :
        att[i].pc = "done" /\ att[i].entry = "genuine" /\ att[i].result.v.object =>
            /\ att[i].answer = "false" =>
                  att[i].result.v.valid = "false" /\ ~att[i].result.v.error.some
            /\ att[i].result.v.error.some => att[i].answer = "true"

\* C18: where Platform.OS is not android no call ever awaits anything: the
\* provider is never prepared, no token is requested and nothing is posted;
\* initializeIntegrity returns false, verifyAppIntegrity returns { valid: true }
\* without calling the initializer, and isGenuineEnvironment returns true.
C18_UnsupportedPlatformSkips ==
    platform # "android" =>
        /\ ~isInitialized /\ prepares = 0
        /\ \A i \in Inv :
              /\ ~AttInFlight(i)
              /\ att[i].pc = "done" =>
                    /\ ~att[i].prepared /\ att[i].tokenReqs = 0 /\ att[i].posts = 0
                    /\ att[i].entry = "init" => att[i].init = "false"
                    /\ Verified(i) =>
                          /\ att[i].result = Some(IntegrityResult(TRUE, "true", None, ""))
                          /\ att[i].init = "none"
                    /\ att[i].entry = "genuine" => att[i].answer = "true"

\* isGenuineEnvironment returned on a platform without attestation
C18_Witness ==
    /\ platform = "ios"
    /\ \E i \in Inv : att[i].pc = "done" /\ att[i].entry = "genuine"

\* C19 as stated: on android every call of verifyAppIntegrity that ends at a
\* failing step returns valid = false with a non-empty error and has gone no
\* further: no token request and no POST after a failed initialization, no
\* POST without a token, the status in the error of a non-2xx response.
C19_Original ==
    \A i \in Inv :
        platform = "android" /\ Verified(i) /\ ~att[i].body.some =>
            /\ att[i].result.v.valid = "false"
            /\ att[i].result.v.error.some /\ att[i].result.v.error.v # <<>>
            /\ att[i].init = "false" => att[i].tokenReqs = 0 /\ att[i].posts = 0
            /\ att[i].token = "" => att[i].posts = 0
            /\ att[i].status # 0 =>
                  att[i].result.v.error.v
                      = <<"Verification failed: ">> \o ToString(att[i].status)

\* what the caller of isGenuineEnvironment gets for a body b, by its error and
\* valid fields alone
AnswerFor(b) ==
    IF ~b.object THEN "true"
    ELSE IF b.error.some /\ b.error.v # <<>> THEN "true"
    ELSE b.valid

\* C20: a call of verifyAppIntegrity that parsed a 2xx body returns that body,
\* every field of it, and isGenuineEnvironment's answer is then a function of
\* the body's error and valid fields.
C20_BodyVerbatim ==
    \A i \in Inv :
        Verified(i) /\ att[i].body.some =>
            /\ ResponseOk(att[i].status)
            /\ att[i].result = att[i].body
            /\ att[i].entry = "genuine" => att[i].answer = AnswerFor(att[i].body.v)

\* the endpoint called an unrecognised app valid and isGenuineEnvironment
\* returned true
C20_Witness ==
    \E i \in Inv :
        /\ att[i].pc = "done" /\ att[i].entry = "genuine"
        /\ att[i].body = Some(IntegrityResult(TRUE, "true", None, "UNRECOGNIZED_VERSION"))
        /\ att[i].answer = "true"

\* C21 as stated: every result verifyAppIntegrity returns with valid = true
\* carries no error.
C21_Original ==
    \A i \in Inv :
        Verified(i) /\ att[i].result.v.valid = "true" => ~att[i].result.v.error.some

\* C22 as stated: an isGenuineEnvironment call does not stay pending on the
\* verification POST forever; with the endpoint silent it still resolves.
C22_Original ==
    (att[1].entry = "genuine" /\ att[1].pc = "post") ~> (att[1].pc # "post")

\* the process restarts in this step: the provider's flag and every call in
\* progress are gone
IntegrityRestart ==
    isInitialized' = FALSE /\ prepares' = 0 /\ att' = [i \in Inv |-> IdleAtt]

\* a call into appIntegrity.ts is made in slot i in this step
CallStep(i) ==
    ~AttInFlight(i) /\ att'[i].pc # "idle" /\ att'[i] # att[i]

\* C23: the provider becomes Ready only in a step in which a call of
\* prepareIntegrityToken resolves, and once Ready it stays Ready until the
\* process restarts.
C23_ProviderStateMachine ==
    [][/\ ~isInitialized /\ isInitialized'
            => \E i \in Inv :
                  /\ att[i].pc = "prepare" /\ att[i].prepared
                  /\ att'[i].init = "true"
       /\ isInitialized /\ ~isInitialized' => IntegrityRestart]_vars

\* the provider is Ready after one platform initialization succeeded and
\* another, overlapping one, failed
C23_Witness ==
    /\ isInitialized
    /\ \E i, j \in Inv :
          /\ att[i].prepared /\ att[i].init = "true"
          /\ att[j].prepared /\ att[j].init = "false"

\* C24: a call made while the provider is Ready does not call
\* prepareIntegrityToken: the initializer returns true at once and
\* verifyAppIntegrity goes straight to the token request.
C24_IdempotentOnceReady ==
    [][\A i \in Inv :
          isInitialized /\ CallStep(i)
              => /\ prepares' = prepares
                 /\ ~att'[i].prepared
                 /\ att'[i].entry = "init"
                        => att'[i].pc = "done" /\ att'[i].init = "true"
                 /\ att'[i].entry \in {"verify", "genuine"}
                        => att'[i].pc = "token" /\ att'[i].tokenReqs = 1]_vars

\* with the provider Ready, the initializer returned true and a verification
\* is at its token request, neither having called prepareIntegrityToken
C24_Witness ==
    /\ isInitialized
    /\ \E i, j \in Inv :
          /\ att[i].entry = "init" /\ att[i].pc = "done"
          /\ att[i].init = "true" /\ ~att[i].prepared
          /\ att[j].entry = "verify" /\ att[j].pc = "token" /\ ~att[j].prepared

\* the initializer is called again right after a call of it returned
SecondInitialize ==
    /\ att[1].pc = "done" /\ att[1].entry = "init"
    /\ att'[1].entry = "init" /\ att'[1].pc # "idle"

\* C25 as stated: two initializer calls in succession make at most one call
\* of prepareIntegrityToken between them.
C25_Original ==
    [][SecondInitialize => ~(att[1].prepared /\ att'[1].prepared)]_vars

\* C25 amended: two initializer calls in succession make at most one call of
\* prepareIntegrityToken between them unless the first call's
\* prepareIntegrityToken failed; after such a failure the second call calls
\* it again.
C25_AtMostOncePrepared ==
    [][SecondInitialize
          => /\ att[1].prepared /\ att'[1].prepared => att[1].init = "false"
             /\ att[1].prepared /\ att[1].init = "false" => att'[1].prepared]_vars

\* an initializer call returned true without preparing, after
\* prepareIntegrityToken had been called once in this process
C25_Witness ==
    /\ att[1].pc = "done" /\ att[1].entry = "init"
    /\ att[1].init = "true" /\ ~att[1].prepared
    /\ prepares = 1

\* C26: every call into appIntegrity.ts that ends, ends by returning a value:
\* a boolean from initializeIntegrity, a result from verifyAppIntegrity, and
\* from isGenuineEnvironment what the result stands for, never an exception.
C26_NeverThrows ==
    \A i \in Inv :
        att[i].pc = "done"
            => /\ att[i].entry = "init" => att[i].init \in {"true", "false"}
               /\ att[i].entry \in {"verify", "genuine"} => att[i].result.some
               /\ att[i].entry = "genuine"
                      => att[i].answer \in {"true", "false", "undefined"}
               /\ att[i].entry # "genuine" => att[i].answer = "none"

\* the endpoint answered 2xx with the JSON value null, and isGenuineEnvironment
\* returned true
C26_Witness ==
    \E i \in Inv :
        /\ att[i].pc = "done" /\ att[i].entry = "genuine"
        /\ ResponseOk(att[i].status)
        /\ att[i].body.some /\ ~att[i].body.v.object
        /\ att[i].answer = "true"

\* C27: compareVersions returns -1, 0 or 1, compareVersions(a, a) is 0 and
\* compareVersions(a, b) is the negation of compareVersions(b, a).
C27_ComparatorAlgebra ==
    cmp.result.some
        => /\ cmp.result.v \in {0 - 1, 0, 1}
           /\ compareVersions(cmp.a, cmp.a) = 0
           /\ cmp.a = cmp.b => cmp.result.v = 0
           /\ cmp.result.v = 0 - compareVersions(cmp.b, cmp.a)

\* "1.x" was compared with "v1.1" and came out lower
C27_Witness ==
    /\ cmp.a = JoinDots(<<<<"1">>, <<"x">>>>)
    /\ cmp.b = Render(TRUE, <<1, 1>>)
    /\ cmp.result = Some(0 - 1)

\* numbers padded with zeros to length n
Pad(numbers, n) == [k \in 1..n |-> IF k <= Len(numbers) THEN numbers[k] ELSE 0]

\* the sign of the lexicographic comparison of two sequences of numbers, the
\* shorter one padded with zeros
LexSign(x, y) ==
    LET n == Max(Len(x), Len(y))
        differ == {k \in 1..n : Pad(x, n)[k] # Pad(y, n)[k]}
        first == CHOOSE k \in differ : \A m \in differ : k <= m
    IN IF differ = {} THEN 0
       ELSE IF Pad(x, n)[first] > Pad(y, n)[first] THEN 1
       ELSE 0 - 1

\* C28: for versions written as numbers joined by dots, with or without the
\* prefix, compareVersions returns the sign of the lexicographic comparison
\* of the two sequences of numbers, the shorter one padded with zeros.
C28_LexicographicSign ==
    cmp.result.some /\ cmp.numbersA.some /\ cmp.numbersB.some
        => cmp.result.v = LexSign(cmp.numbersA.v, cmp.numbersB.v)

\* "1.10.0" was compared with "1.9.0" and came out greater
C28_Witness ==
    /\ cmp.a = Render(FALSE, <<1, 10, 0>>)
    /\ cmp.b = Render(FALSE, <<1, 9, 0>>)
    /\ cmp.result = Some(1)

\* a component that is no decimal literal
NonNumeric(c) ==
    /\ c # <<>>
    /\ \E k \in 1..Len(c) : ~IsDigit(c[k])
    /\ ~IsExponent(c)

\* the components of a version string
Components(s) == Split(StripV(s))

\* s with every non-numeric component replaced by 0
Zeroed(s) ==
    JoinDots([k \in 1..Len(Components(s)) |->
                 IF NonNumeric(Components(s)[k]) THEN <<"0">> ELSE Components(s)[k]])

\* the positions at which the components of tag and current differ
Differing(tag, current) ==
    {k \in 1..Max(Len(Components(tag)), Len(Components(current))) :
        k <= Len(Components(tag)) /\ k <= Len(Components(current))
            => Components(tag)[k] # Components(current)[k]}

\* tag differs from current, and only in components of tag that are
\* non-numeric
OnlyNonNumericDiffer(tag, current) ==
    /\ Differing(tag, current) # {}
    /\ \A k \in Differing(tag, current) :
          k <= Len(Components(tag)) /\ NonNumeric(Components(tag)[k])

\* replacing the non-numeric components of both arguments by 0 gives the
\* result compareVersions returned, which is -1, 0 or 1
ZeroedAlike ==
    cmp.result.some
        => /\ cmp.result.v \in {0 - 1, 0, 1}
           /\ cmp.result.v = compareVersions(Zeroed(cmp.a), Zeroed(cmp.b))

\* C29 as stated: non-numeric components count as 0, and a tag that differs
\* from a current version made of numbers only in non-numeric components
\* compares as equal to it.
C29_Original ==
    /\ ZeroedAlike
    /\ cmp.result.some /\ cmp.numbersB.some /\ OnlyNonNumericDiffer(cmp.a, cmp.b)
          => cmp.result.v = 0

\* C29 amended: non-numeric components count as 0, and a tag that differs
\* from a current version made of numbers only in non-numeric components is
\* never greater, so no update is found: it compares as equal when the
\* current version has 0 or nothing at each of those positions and as lower
\* otherwise.
C29_NonNumericIsZero ==
    /\ ZeroedAlike
    /\ cmp.result.some /\ cmp.numbersB.some /\ OnlyNonNumericDiffer(cmp.a, cmp.b)
          => /\ ~HasUpdate(cmp.a, cmp.b)
             /\ cmp.result.v =
                    IF \A k \in Differing(cmp.a, cmp.b) :
                           Pad(cmp.numbersB.v, k)[k] = 0
                    THEN 0 ELSE 0 - 1

\* "1.x" was compared with "1.1" and came out lower, "1.0.0-b" with "1.0.0"
\* would come out equal
C29_Witness ==
    /\ cmp.a = JoinDots(<<<<"1">>, <<"x">>>>)
    /\ cmp.b = Render(FALSE, <<1, 1>>)
    /\ cmp.result = Some(0 - 1)
    /\ compareVersions(JoinDots(<<<<"1">>, <<"0">>, <<"0", "-", "b">>>>),
                       Render(FALSE, <<1, 0, 0>>)) = 0

\* C30: an invocation of checkForUpdates puts at most one dialog on screen:
\* the dialogs on screen change only in the step in which an invocation
\* shows its prompt, by that one dialog, and the invocation ends with it.
C30_OnePromptEach ==
    [][/\ alerts' # alerts
            => \E i \in Inv :
                  /\ PromptStep(i)
                  /\ \A j \in Inv \ {i} : inv'[j] = inv[j]
                  /\ alerts' = alerts \cup {inv'[i].prompt.v}
       /\ \A i \in Inv :
             inv'[i].prompt.some /\ inv'[i].prompt # inv[i].prompt
                 => PromptStep(i) /\ ~InFlight(i)']_vars

\* two invocations both found the check due, both recorded it and both
\* fetched within one instant, and each showed a prompt
C30_Witness ==
    /\ ticks = 0
    /\ \A i \in Inv :
          /\ inv[i].outcome = "prompt" /\ inv[i].prompt.some
          /\ inv[i].fetched /\ inv[i].record = "stored"
    /\ inv[1].prompt # inv[2].prompt
    /\ Cardinality(alerts) = 2

\* C31: a call that starts on android while the provider is not Ready calls
\* prepareIntegrityToken, also while another call of it is in progress: each
\* such call adds one to the calls made by the process.
C31_NoSingleFlight ==
    [][\A i \in Inv :
          CallStep(i) /\ ~isInitialized
              => att'[i].prepared /\ att'[i].pc = "prepare"
                 /\ prepares' = prepares + 1]_vars

\* two calls, an initializer and a verification, both wait for their own
\* prepareIntegrityToken while the provider is not Ready
C31_Witness ==
    /\ ~isInitialized
    /\ prepares = 2
    /\ att[1].pc = "prepare" /\ att[1].entry = "init"
    /\ att[2].pc = "prepare" /\ att[2].entry = "verify"

\* C35: a call of verifyAppIntegrity makes at most one token request and at
\* most one POST; a POST has been issued only with the provider Ready, after
\* the call's own token request resolved with a non-empty token, and it
\* carries that token.
C35_ProtocolOrder ==
    \A i \in Inv :
        /\ att[i].tokenReqs <= 1
        /\ att[i].posts <= att[i].tokenReqs
        /\ att[i].pc \in {"post", "json"} => att[i].posts = 1
        /\ att[i].posts = 1
              => /\ isInitialized
                 /\ att[i].entry \in {"verify", "genuine"}
                 /\ att[i].token # ""
                 /\ att[i].sent = att[i].token
        /\ att[i].tokenReqs = 1 => isInitialized

\* a verification that prepared the provider itself posted its token and
\* got a 2xx answer
C35_Witness ==
    \E i \in Inv :
        /\ att[i].pc = "done" /\ att[i].prepared
        /\ att[i].tokenReqs = 1 /\ att[i].posts = 1
        /\ att[i].sent = "token-b"
        /\ ResponseOk(att[i].status)

\* prepareIntegrityToken resolves in this step
PrepareSucceeds == att[1].pc = "prepare" /\ att'[1].init = "true"

\* prepareIntegrityToken rejects in this step
PrepareFails == att[1].pc = "prepare" /\ att'[1].init = "false"

\* C37: a failed prepareIntegrityToken leaves isInitialized false and the
\* call that follows calls prepareIntegrityToken again; isInitialized turns
\* true in exactly the steps in which a prepareIntegrityToken resolves, so it
\* is true iff one has resolved in this process.
C37_FailureNotAbsorbing ==
    [][/\ PrepareFails => ~isInitialized'
       /\ (/\ att[1].pc = "done" /\ att[1].prepared /\ att[1].init = "false"
           /\ CallStep(1))
              => att'[1].prepared /\ att'[1].pc = "prepare"
       /\ PrepareSucceeds => isInitialized'
       /\ ~isInitialized /\ ~PrepareSucceeds => ~isInitialized']_vars

\* after a failed prepareIntegrityToken a second call prepared again, and
\* succeeded
C37_Witness ==
    /\ isInitialized
    /\ prepares = 2
    /\ att[1].pc = "done" /\ att[1].entry = "init"
    /\ att[1].prepared /\ att[1].init = "true"

\* the store operations invocation i has outstanding
StoreOps(i) == Cardinality({k \in 1..Len(queue) : queue[k].inv = i})

\* the network operations invocation i has outstanding
NetOps(i) == IF inv[i].pc = "fetch" THEN 1 ELSE 0

\* C32: an invocation of checkForUpdates or forceCheckForUpdates in progress
\* has exactly one store or network operation outstanding and a returned one
\* none; a verification issues its token request after the prepare settled
\* and its POST after the token request settled; and a dismissal write is
\* issued only by the button press that closes its dialog.
C32_OneOutstanding ==
    /\ [](\A i \in Inv :
             StoreOps(i) + NetOps(i) = (IF InFlight(i) THEN 1 ELSE 0))
    /\ [](\A i \in Inv :
             /\ att[i].pc = "prepare" => att[i].tokenReqs = 0 /\ att[i].posts = 0
             /\ att[i].pc = "token" => att[i].tokenReqs = 1 /\ att[i].posts = 0
             /\ att[i].pc \in {"post", "json"}
                   => att[i].tokenReqs = 1 /\ att[i].posts = 1)
    /\ [][StoreOps(0)' > StoreOps(0)
             => /\ StoreOps(0)' = StoreOps(0) + 1
                /\ \E a \in alerts : CloseStep(a) /\ queue' = Append(queue, DismissOp(a))]_vars

\* an invocation awaits the release index, a verification awaits the
\* endpoint and a dismissal write is pending, one operation each
C32_Witness ==
    /\ inv[1].pc = "fetch" /\ StoreOps(1) = 0
    /\ att[1].pc = "post"
    /\ StoreOps(0) = 1

\* C33: a step in which the fetch of checkForUpdates or forceCheckForUpdates
\* ends without a release is the same step whether the release index
\* answered 404, another non-2xx status, failed in transport, timed out or
\* sent no JSON: the state it leads to is the one each of these leads to.
C33_AbsentOrFailedAlike ==
    [][\A i \in Inv :
          inv[i].pc = "fetch" /\ inv'[i].pc = "done"
              /\ (\E o \in FetchOutcomes \ {"ok"} : FetchReturn(i, o, NoRelease))
              => \A o \in FetchOutcomes \ {"ok"} : FetchReturn(i, o, NoRelease)]_vars

\* a forced check recorded, got no release and returned the result without an
\* update
C33_Witness ==
    /\ inv[1].pc = "done" /\ inv[1].kind = "force"
    /\ inv[1].outcome = "norelease"
    /\ inv[1].result = Some(NoUpdateResult)
    /\ inv[1].record = "stored" /\ store.lastCheck.some

\* C34: a non-forced checkForUpdates whose gate finds the check not due
\* returns in that step: it has issued no fetch and shown no prompt, it
\* issues no store operation, and last_update_check, dismissed_version and
\* the dialogs on screen are as they were when it started its read.
C34_SkipsEntirely ==
    [][\A i \in Inv :
          GateStep(i) /\ inv'[i].pc = "done"
              => /\ ~inv[i].force /\ inv'[i].outcome = "skipped"
                 /\ ~inv'[i].fetched /\ inv'[i].record = "none"
                 /\ ~inv'[i].prompt.some
                 /\ queue' = Tail(queue) /\ StoreOps(i)' = 0
                 /\ store' = store /\ alerts' = alerts]_vars

\* an invocation was gated out while a check time and a dismissal were
\* persisted
C34_Witness ==
    /\ inv[1].pc = "done" /\ inv[1].kind = "check" /\ inv[1].outcome = "skipped"
    /\ store.lastCheck.some /\ store.dismissed.some
    /\ ticks > 0

\* C36: forceCheckForUpdates never reads or writes dismissed_version: it has
\* no operation on that key outstanding and holds no value read from it, its
\* steps leave dismissed_version as it is, and for a fetched release it
\* reports hasUpdate as the comparison of the tag with the current version,
\* whatever dismissed_version holds.
C36_ForceIgnoresDismissal ==
    /\ [](\A i \in Inv :
             inv[i].kind = "force"
                 => /\ inv[i].pc # "dismissed"
                    /\ ~inv[i].dismissed.some /\ ~inv[i].readError
                    /\ \A k \in 1..Len(queue) :
                          queue[k].inv = i => queue[k].key # UPDATE_DISMISSED_KEY)
    /\ [][\A i \in Inv :
             inv'[i].kind = "force" /\ inv'[i] # inv[i]
                 => /\ store'.dismissed = store.dismissed
                    /\ inv'[i].outcome = "result"
                          => \E r \in Releases :
                                /\ FetchReturn(i, "ok", r)
                                /\ inv'[i].result.v.hasUpdate
                                       = HasUpdate(r.tag_name, currentVersion)]_vars

\* forceCheckForUpdates reported an update for v1.1.0 while v1.1.0 was
\* persisted as dismissed
C36_Witness ==
    /\ inv[1].pc = "done" /\ inv[1].kind = "force" /\ inv[1].outcome = "result"
    /\ inv[1].result.v.hasUpdate
    /\ inv[1].result.v.latestVersion = Some(<<"1", ".", "1", ".", "0">>)
    /\ store.dismissed = Some(<<"v", "1", ".", "1", ".", "0">>)

\* invocation i's recordUpdateCheck returns in this step
RecordStep(i) == inv[i].pc = "record" /\ inv'[i].pc \in {"fetch", "done"}

\* C38: when the write of last_update_check fails the invocation, forced or
\* not, still goes on to the fetch and last_update_check keeps its value; a
\* gate that reads it afterwards decides by that value.
C38_FailedRecordSwallowed ==
    [][\A i \in Inv :
          /\ RecordStep(i) /\ inv'[i].record # "stored"
                => /\ inv'[i].record = "failed"
                   /\ inv'[i].pc = "fetch" /\ inv'[i].fetched
                   /\ store' = store
          /\ GateStep(i) /\ ~inv'[i].gateError
                => (inv'[i].pc = "done" <=> Early(store.lastCheck, clock))]_vars

\* an invocation whose record failed more than 24h after the persisted check
\* is fetching, and a second one has found the check due on the old time
C38_Witness ==
    /\ inv[1].pc = "fetch" /\ inv[1].record = "failed"
    /\ store.lastCheck.some /\ ~Early(store.lastCheck, clock)
    /\ inv[2].kind = "check" /\ ~inv[2].force /\ ~inv[2].gateError
    /\ inv[2].pc = "fetch"

\* C39: when the read of last_update_check fails the gate reports due, and
\* when the read of dismissed_version fails the version counts as not
\* dismissed and the dialog is shown for a release that has its assets;
\* neither step changes what is persisted.
C39_ReadFailuresOpen ==
    [][\A i \in Inv :
          /\ GateStep(i) /\ inv'[i].gateError
                => inv'[i].pc = "record" /\ store' = store
          /\ ReadStep(i) /\ inv'[i].readError
                => /\ inv'[i].outcome # "dismissed"
                   /\ inv'[i].outcome = "prompt" <=> "assets" \notin inv[i].release.missing
                   /\ inv'[i].outcome = "prompt" => inv'[i].prompt.v \in alerts'
                   /\ store' = store]_vars

\* a prompt is on screen for the very tag persisted as dismissed, its read
\* having failed
C39_Witness ==
    \E i \in Inv :
        /\ inv[i].outcome = "prompt" /\ inv[i].readError
        /\ store.dismissed = Some(inv[i].prompt.v.release.tag_name)
        /\ inv[i].prompt.v \in alerts

\* a forced invocation persists the time it read, and the end of its fetch
\* leaves last_update_check alone whatever came back
ForcedRecords ==
    \A i \in Inv :
        inv[i].force
            => /\ RecordStep(i) /\ inv'[i].record = "stored"
                     => store'.lastCheck = Some(RecordValue(inv[i].recordedAt))
               /\ inv[i].pc = "fetch" /\ inv'[i].pc = "done" => store' = store

====
